---- MODULE Spec2Model ----
(***************************************************************************)
(* OpusChess: the Board (FEN parse, makeMove / unmakeMove, attack queries, *)
(* repetition detection), the move generator, the MoveUtils encoding, the  *)
(* iterative-deepening alpha-beta search and the UCI worker hand-off.      *)
(*                                                                         *)
(* A Zobrist key is one of 793 random 64-bit constants (board.cpp:7-30).   *)
(* The hash is modelled as the set of keys that were XOR-ed in an odd      *)
(* number of times, so that XOR is the symmetric difference of key sets:   *)
(* two hashes that are equal here are equal in the program.                *)
(***************************************************************************)
EXTENDS Integers, Sequences, FiniteSets, TLC

VARIABLES
    board,      \* the Board object: squares, stm, castling, epSquare, halfmoves,
                \* fullmoves, hash, hashHistory, history
    lastOp,     \* the Board operation that produced this state, and the flags
                \* of its move
    snapshots,  \* the boards recorded at each length of the undo stack
    rep,        \* the last isDrawByRepetition call: whether one was made on
                \* this history, and what it returned
    search,     \* the Search object and the think call running on it: think's
                \* arguments and locals, info, the transposition table, the
                \* alphaBeta / quiescence frames and the last returned score
    trace,      \* what the search has done: the move made and the table store
                \* of the last step, the completed iterations, the iteration
                \* in which the stop flag became set
    uci         \* the front-end: where the command thread and the worker
                \* thread are, the Search pointer, the stop flag of the object
                \* it points to, the thread handle, the lines emitted, the
                \* number of worker threads started and not yet returned

----------------------------------------------------------------------------
(* types.h *)

WHITE == 0
BLACK == 1

PAWN == 0
KNIGHT == 1
BISHOP == 2
ROOK == 3
QUEEN == 4
KING == 5
NO_PIECE_TYPE == 6

WHITE_PAWN == 0
WHITE_KNIGHT == 1
WHITE_BISHOP == 2
WHITE_ROOK == 3
WHITE_QUEEN == 4
WHITE_KING == 5
BLACK_PAWN == 6
BLACK_KNIGHT == 7
BLACK_BISHOP == 8
BLACK_ROOK == 9
BLACK_QUEEN == 10
BLACK_KING == 11
NO_PIECE == 12

A1 == 0
B1 == 1
C1 == 2
D1 == 3
E1 == 4
F1 == 5
G1 == 6
H1 == 7
A8 == 56
B8 == 57
C8 == 58
D8 == 59
E8 == 60
F8 == 61
G8 == 62
H8 == 63

MOVE_NORMAL == 0
MOVE_CAPTURE == 16384
MOVE_CASTLE == 32768
MOVE_EN_PASSANT == 49152
MOVE_PROMOTION == 8192

WHITE_KINGSIDE == 1
WHITE_QUEENSIDE == 2
BLACK_KINGSIDE == 4
BLACK_QUEENSIDE == 8

NO_SQUARE == -1

Abs(x) == IF x < 0 THEN -x ELSE x

(* Sequencing: the value v of one statement is computed first and handed  *)
(* to the statements F that follow it.                                     *)
Then(v, F(_)) == CHOOSE r \in {F(x) : x \in {v}} : TRUE

makeSquare(f, r) == r * 8 + f

fileOf(s) == s % 8

rankOf(s) == s \div 8

colorOf(p) == IF p < 6 THEN WHITE ELSE BLACK

typeOf(p) == p % 6

makePiece(c, pt) == c * 6 + pt

(* Bitwise operators on non-negative integers, as C++ computes them on the *)
(* uint16_t moves and on the int castling masks, bit by bit from bit 0.    *)
RECURSIVE BitAnd(_, _)
BitAnd(a, b) ==
    IF a = 0 \/ b = 0 THEN 0
    ELSE (a % 2) * (b % 2) + 2 * BitAnd(a \div 2, b \div 2)

BitOr(a, b) == a + b - BitAnd(a, b)

----------------------------------------------------------------------------
(* move.h, move.cpp: the 16-bit Move encoding *)

MoveMake(from, to, flags) == BitOr(BitOr(from, to * 64), flags) % 65536

MoveFrom(m) == m % 64

MoveTo(m) == (m \div 64) % 64

MoveFlags(m) == BitAnd(m, 61440)

isCapture(m) == BitAnd(m, MOVE_CAPTURE) # 0

isCastle(m) == BitAnd(m, 49152) = MOVE_CASTLE

isEnPassant(m) == BitAnd(m, 49152) = MOVE_EN_PASSANT

isPromotion(m) == BitAnd(m, MOVE_PROMOTION) # 0

promotionType(m) ==
    IF ~isPromotion(m) THEN NO_PIECE_TYPE
    ELSE BitAnd(m \div 4096, 3) + KNIGHT

makePromotion(from, to, pt) ==
    LET flags == IF pt # NO_PIECE_TYPE
                 THEN BitOr(MOVE_PROMOTION, (pt - KNIGHT) * 4096)
                 ELSE MOVE_PROMOTION
    IN MoveMake(from, to, flags)

----------------------------------------------------------------------------
(* board.cpp: Zobrist keys.  Each key is named by its index in the key     *)
(* tables: zobristPieces[p][s], zobristCastling[c], zobristEpFile[f] and   *)
(* zobristSideToMove are pairwise different keys.                          *)

zobristPieces(p, s) == p * 64 + s

zobristCastling(c) == 768 + c

zobristEpFile(f) == 784 + f

zobristSideToMove == 792

XorKeepsKey(h, k) == h \cup {k}

(* hash ^= key *)
Xor(h, k) == IF k \in h THEN h \ {k} ELSE h \cup {k}

----------------------------------------------------------------------------
(* board.cpp: position queries *)

(* for (Square s = 0; s < 64; ++s) if (squares[s] == king) return s;       *)
(* return -1: the first square that holds the king of colour c.            *)
kingSquare(b, c) ==
    LET king == makePiece(c, KING)
    IN  IF \E s \in 0..63 : b.squares[s] = king
        THEN CHOOSE s \in 0..63 :
                b.squares[s] = king /\ \A t \in 0..(s - 1) : b.squares[t] # king
        ELSE -1

(* One diagonal ray of isAttacked: walk from `from` in direction dir until *)
(* the edge (a file step other than 1) or the first piece.                 *)
RECURSIVE BishopRayHit(_, _, _, _, _)
BishopRayHit(squares, from, lastFile, dir, by) ==
    LET nxt == from + dir
    IN  IF nxt < 0 \/ nxt >= 64 THEN FALSE
        ELSE IF Abs(fileOf(nxt) - lastFile) # 1 THEN FALSE
        ELSE IF squares[nxt] # NO_PIECE
             THEN squares[nxt] = makePiece(by, BISHOP) \/ squares[nxt] = makePiece(by, QUEEN)
        ELSE BishopRayHit(squares, nxt, fileOf(nxt), dir, by)

RECURSIVE RookRayHit(_, _, _, _)
RookRayHit(squares, from, dir, by) ==
    LET nxt == from + dir
    IN  IF nxt < 0 \/ nxt >= 64 THEN FALSE
        ELSE IF Abs(dir) = 1 /\ rankOf(nxt) # rankOf(nxt - dir) THEN FALSE
        ELSE IF squares[nxt] # NO_PIECE
             THEN squares[nxt] = makePiece(by, ROOK) \/ squares[nxt] = makePiece(by, QUEEN)
        ELSE RookRayHit(squares, nxt, dir, by)

KNIGHT_DELTAS == <<-17, -15, -10, -6, 6, 10, 15, 17>>
KING_DELTAS == <<-9, -8, -7, -1, 1, 7, 8, 9>>
BISHOP_DELTAS == <<-9, -7, 7, 9>>
ROOK_DELTAS == <<-8, -1, 1, 8>>
QUEEN_DELTAS == <<-9, -8, -7, -1, 1, 7, 8, 9>>

isAttacked(b, s, by) ==
    LET squares == b.squares
        pawnDir == IF by = WHITE THEN 8 ELSE -8
    IN  \/ \E delta \in {pawnDir - 1, pawnDir + 1} :
             LET from == s - delta
             IN  /\ from >= 0 /\ from < 64
                 /\ Abs(fileOf(from) - fileOf(s)) = 1
                 /\ squares[from] = makePiece(by, PAWN)
        \/ \E i \in 1..8 :
             LET from == s + KNIGHT_DELTAS[i]
             IN  /\ from >= 0 /\ from < 64
                 /\ LET fd == Abs(fileOf(from) - fileOf(s))
                        rd == Abs(rankOf(from) - rankOf(s))
                    IN  (fd = 2 /\ rd = 1) \/ (fd = 1 /\ rd = 2)
                 /\ squares[from] = makePiece(by, KNIGHT)
        \/ \E i \in 1..4 : BishopRayHit(squares, s, fileOf(s), BISHOP_DELTAS[i], by)
        \/ \E i \in 1..4 : RookRayHit(squares, s, ROOK_DELTAS[i], by)
        \/ \E i \in 1..8 :
             LET from == s + KING_DELTAS[i]
             IN  /\ from >= 0 /\ from < 64
                 /\ Abs(fileOf(from) - fileOf(s)) <= 1
                 /\ Abs(rankOf(from) - rankOf(s)) <= 1
                 /\ squares[from] = makePiece(by, KING)

isInCheck(b, c) == \E s \in {kingSquare(b, c)} : isAttacked(b, s, 1 - c)

(* isDrawByRepetition: the set of outcomes of a call.  RepetitionLoop is   *)
(* the for loop from the test i > 0 on, i the size_t index and count the   *)
(* matches so far.  From i = 1 the step i -= 2 wraps to an index past the  *)
(* end of hashHistory; the read through it is outside the vector, and the  *)
(* call can then return either answer or fault.                            *)
RECURSIVE RepetitionLoop(_, _, _)
RepetitionLoop(hashHistory, i, count) ==
    IF i = 0 THEN {"false"}
    ELSE LET currentHash == hashHistory[Len(hashHistory)]
             hit == hashHistory[i + 1] = currentHash
             count2 == IF hit THEN count + 1 ELSE count
         IN  IF hit /\ count2 >= 2 THEN {"true"}
             ELSE IF i >= 2 THEN RepetitionLoop(hashHistory, i - 2, count2)
             ELSE {"true", "false", "fault"}

(* The indices at which isDrawByRepetition reads hashHistory, counted from  *)
(* 0 as in the code.  `i -= 2` at i = 1 wraps the size_t to 2^64 - 1, which *)
(* passes `i > 0`; that index is written here as 1 - 2.                    *)
RECURSIVE RepetitionLoopReads(_, _, _)
RepetitionLoopReads(hashHistory, i, count) ==
    IF i = 0 THEN {}
    ELSE LET currentHash == hashHistory[Len(hashHistory)]
             hit == hashHistory[i + 1] = currentHash
             count2 == IF hit THEN count + 1 ELSE count
         IN  IF hit /\ count2 >= 2 THEN {i}
             ELSE IF i >= 2 THEN {i} \cup RepetitionLoopReads(hashHistory, i - 2, count2)
             ELSE {i, i - 2}

isDrawByRepetitionReads(b) ==
    IF Len(b.hashHistory) < 9 THEN {}
    ELSE {Len(b.hashHistory) - 1}
            \cup RepetitionLoopReads(b.hashHistory, Len(b.hashHistory) - 3, 0)

isDrawByRepetition(b) ==
    IF Len(b.hashHistory) < 9 THEN {"false"}
    ELSE RepetitionLoop(b.hashHistory, Len(b.hashHistory) - 3, 0)

isDrawByFiftyMoves(b) == b.halfmoves >= 100

----------------------------------------------------------------------------
(* board.cpp: makeMove / unmakeMove *)

(* The rights cleared only when the piece leaves the square *)
ClearRightsOfMover(castling, from, to, sq, rights) ==
    IF from = sq THEN BitAnd(castling, 15 - rights) ELSE castling

(* One `if (from == sq || to == sq) castling &= ~rights;` of              *)
(* updateCastlingRights, the mask being four bits wide                     *)
ClearRights(castling, from, to, sq, rights) ==
    IF from = sq \/ to = sq THEN BitAnd(castling, 15 - rights) ELSE castling

updateCastlingRights(castling, from, to) ==
    ClearRights(
      ClearRights(
        ClearRights(
          ClearRights(
            ClearRights(
              ClearRights(castling, from, to, E1, WHITE_KINGSIDE + WHITE_QUEENSIDE),
              from, to, E8, BLACK_KINGSIDE + BLACK_QUEENSIDE),
            from, to, A1, WHITE_QUEENSIDE),
          from, to, H1, WHITE_KINGSIDE),
        from, to, A8, BLACK_QUEENSIDE),
      from, to, H8, BLACK_KINGSIDE)

(* The rook's part of a castle: [squares, hash] after it. *)
CastleRook(squares, hash, to) ==
    LET mv(rook, rfrom, rto) ==
            [squares |-> [squares EXCEPT ![rto] = rook, ![rfrom] = NO_PIECE],
             hash |-> Xor(Xor(hash, zobristPieces(rook, rfrom)), zobristPieces(rook, rto)),
             cap |-> NO_PIECE]
    IN  IF to = G1 THEN mv(WHITE_ROOK, H1, F1)
        ELSE IF to = C1 THEN mv(WHITE_ROOK, A1, D1)
        ELSE IF to = G8 THEN mv(BLACK_ROOK, H8, F8)
        ELSE IF to = C8 THEN mv(BLACK_ROOK, A8, D8)
        ELSE [squares |-> squares, hash |-> hash, cap |-> NO_PIECE]

makeMove(b, m) ==
    LET from == MoveFrom(m)
        to == MoveTo(m)
        moving == b.squares[from]
        captured == b.squares[to]
        \* update hash for moving piece, handle captures, move the piece:
        \* the squares, the hash and undo.captured so far
        moved ==
            [squares |-> [[b.squares EXCEPT ![to] = moving] EXCEPT ![from] = NO_PIECE],
             hash |-> IF captured # NO_PIECE
                      THEN Xor(Xor(Xor(b.hash, zobristPieces(moving, from)),
                                   zobristPieces(moving, to)),
                               zobristPieces(captured, to))
                      ELSE Xor(Xor(b.hash, zobristPieces(moving, from)),
                               zobristPieces(moving, to)),
             cap |-> IF captured # NO_PIECE THEN captured ELSE NO_PIECE]
        \* handle special moves
        captureSquare == makeSquare(fileOf(to), rankOf(from))
        promoted == makePiece(b.stm, promotionType(m))
        special(s) ==
            IF isCastle(m)
            THEN [CastleRook(s.squares, s.hash, to) EXCEPT !.cap = s.cap]
            ELSE IF isEnPassant(m)
            THEN [squares |-> [s.squares EXCEPT ![captureSquare] = NO_PIECE],
                  hash |-> Xor(s.hash, zobristPieces(s.squares[captureSquare], captureSquare)),
                  cap |-> s.squares[captureSquare]]
            ELSE IF isPromotion(m)
            THEN [squares |-> [s.squares EXCEPT ![to] = promoted],
                  hash |-> Xor(Xor(s.hash, zobristPieces(moving, to)),
                               zobristPieces(promoted, to)),
                  cap |-> s.cap]
            ELSE s
        \* update castling rights, en passant square, side to move
        dbl == typeOf(moving) = PAWN /\ Abs(rankOf(to) - rankOf(from)) = 2
        rights(hash, castling2) ==
            Xor(Xor(hash, zobristCastling(b.castling)), zobristCastling(castling2))
        oldEp(hash) ==
            IF b.epSquare # NO_SQUARE THEN Xor(hash, zobristEpFile(fileOf(b.epSquare)))
            ELSE hash
        newEp(hash, ep2) ==
            IF ep2 # NO_SQUARE THEN Xor(hash, zobristEpFile(fileOf(ep2))) ELSE hash
        side(hash) == Xor(hash, zobristSideToMove)
        done(s, castling2, ep2, hash) ==
            [squares |-> s.squares, stm |-> 1 - b.stm, castling |-> castling2,
             epSquare |-> ep2,
             halfmoves |-> IF typeOf(moving) = PAWN \/ captured # NO_PIECE
                           THEN 0 ELSE b.halfmoves + 1,
             fullmoves |-> IF b.stm = BLACK THEN b.fullmoves + 1 ELSE b.fullmoves,
             bitboards |-> b.bitboards,
             hash |-> hash,
             hashHistory |-> Append(b.hashHistory, hash),
             history |-> Append(b.history,
                                [move |-> m, captured |-> s.cap, castling |-> b.castling,
                                 epSquare |-> b.epSquare, halfmoves |-> b.halfmoves,
                                 hash |-> b.hash])]
        finish(s, castling2, ep2) ==
            done(s, castling2, ep2, side(newEp(oldEp(rights(s.hash, castling2)), ep2)))
    IN  finish(special(moved),
               updateCastlingRights(b.castling, from, to),
               IF dbl THEN makeSquare(fileOf(from), (rankOf(from) + rankOf(to)) \div 2)
               ELSE NO_SQUARE)

Last(seq) == seq[Len(seq)]

(* A pop_back that removes nothing *)
KeepBack(s) == s

(* pop_back of a vector *)
PopBack(s) == SubSeq(s, 1, Len(s) - 1)

RookStaysCastled(squares, to) == squares

(* The rook's part of taking a castle back *)
UncastleRook(squares, to) ==
    IF to = G1 THEN [[squares EXCEPT ![H1] = WHITE_ROOK] EXCEPT ![F1] = NO_PIECE]
    ELSE IF to = C1 THEN [[squares EXCEPT ![A1] = WHITE_ROOK] EXCEPT ![D1] = NO_PIECE]
    ELSE IF to = G8 THEN [[squares EXCEPT ![H8] = BLACK_ROOK] EXCEPT ![F8] = NO_PIECE]
    ELSE IF to = C8 THEN [[squares EXCEPT ![A8] = BLACK_ROOK] EXCEPT ![D8] = NO_PIECE]
    ELSE squares

unmakeMove(b, m) ==
    LET undo == b.history[Len(b.history)]
        stm2 == 1 - b.stm
        full2 == IF stm2 = BLACK THEN b.fullmoves - 1 ELSE b.fullmoves
        from == MoveFrom(m)
        to == MoveTo(m)
        moving == IF isPromotion(m) THEN makePiece(stm2, PAWN) ELSE b.squares[to]
        sq1 == [[b.squares EXCEPT ![from] = moving] EXCEPT ![to] = undo.captured]
        captureSquare == makeSquare(fileOf(to), rankOf(from))
        sq2 == IF isCastle(m) THEN UncastleRook(sq1, to)
               ELSE IF isEnPassant(m)
               THEN [[sq1 EXCEPT ![captureSquare] = undo.captured] EXCEPT ![to] = NO_PIECE]
               ELSE sq1
    IN  [squares |-> sq2, stm |-> stm2, castling |-> undo.castling,
         epSquare |-> undo.epSquare, halfmoves |-> undo.halfmoves, fullmoves |-> full2,
         bitboards |-> b.bitboards, hash |-> undo.hash,
         hashHistory |-> PopBack(b.hashHistory),
         history |-> PopBack(b.history)]

EveryMoveLegal(b, m) == TRUE

(* Board copy = *this; copy.makeMove(m): the copy is bound as a value *)
isLegalMove(b, m) ==
    \E copy \in {makeMove(b, m)} : ~isInCheck(copy, 1 - copy.stm)

----------------------------------------------------------------------------
(* movegen.cpp: the pseudo-legal generator, the captures generator and the *)
(* legal filter.  A move list is a sequence, in the order of push_back.    *)

addMove(from, to, flags) == <<MoveMake(from, to, flags)>>

(* for (PieceType pt = QUEEN; pt >= KNIGHT; --pt) push(makePromotion | extra) *)
PromotionMoves(from, to, extra) ==
    [i \in 1..4 |-> BitOr(makePromotion(from, to, QUEEN + 1 - i), extra)]

(* An en-passant capture by a pawn on any file *)
EnPassantMovesOfAnyFile(b, from) ==
    IF /\ b.epSquare # NO_SQUARE
       /\ rankOf(b.epSquare) = rankOf(from) + (IF b.stm = WHITE THEN 1 ELSE -1)
    THEN addMove(from, b.epSquare, MOVE_EN_PASSANT)
    ELSE <<>>

(* generatePawnMoves, movegen.cpp 225-231: en passant *)
EnPassantMoves(b, from) ==
    IF /\ b.epSquare # NO_SQUARE
       /\ Abs(fileOf(from) - fileOf(b.epSquare)) = 1
       /\ rankOf(b.epSquare) = rankOf(from) + (IF b.stm = WHITE THEN 1 ELSE -1)
    THEN addMove(from, b.epSquare, MOVE_EN_PASSANT)
    ELSE <<>>

generatePawnMoves(b, from) ==
    LET us == b.stm
        direction == IF us = WHITE THEN 8 ELSE -8
        startRank == IF us = WHITE THEN 1 ELSE 6
        promoRank == IF us = WHITE THEN 6 ELSE 1
        to == from + direction
        to2 == from + 2 * direction
        pushes ==
            IF to >= 0 /\ to < 64 /\ b.squares[to] = NO_PIECE
            THEN IF rankOf(from) = promoRank
                 THEN PromotionMoves(from, to, 0)
                 ELSE addMove(from, to, MOVE_NORMAL) \o
                      (IF rankOf(from) = startRank /\ b.squares[to2] = NO_PIECE
                       THEN addMove(from, to2, MOVE_NORMAL) ELSE <<>>)
            ELSE <<>>
        capt(delta) ==
            LET captureSquare == from + delta
            IN  IF /\ Abs(delta) \in {7, 9}
                   /\ captureSquare >= 0 /\ captureSquare < 64
                   /\ Abs(fileOf(from) - fileOf(captureSquare)) = 1
                   /\ b.squares[captureSquare] # NO_PIECE
                   /\ colorOf(b.squares[captureSquare]) # us
                THEN IF rankOf(from) = promoRank
                     THEN PromotionMoves(from, captureSquare, MOVE_CAPTURE)
                     ELSE addMove(from, captureSquare, MOVE_CAPTURE)
                ELSE <<>>
    IN  pushes \o capt(direction - 1) \o capt(direction + 1) \o
        EnPassantMoves(b, from)

(* A loop that appends to the move list: the lists its iterations lo..hi   *)
(* push, concatenated in the order of the iterations.                      *)
RECURSIVE Flatten(_, _, _)
Flatten(lists, lo, hi) ==
    IF lo > hi THEN <<>>
    ELSE IF lo = hi THEN lists[lo]
    ELSE LET mid == (lo + hi) \div 2
         IN  Flatten(lists, lo, mid) \o Flatten(lists, mid + 1, hi)

(* for (int delta : deltas) *)
ForDeltas(deltas, f(_)) ==
    Flatten([i \in 1..Len(deltas) |-> f(deltas[i])], 1, Len(deltas))

generateKnightMoves(b, from) ==
    LET step(delta) ==
            LET to == from + delta
            IN  IF to < 0 \/ to >= 64 THEN <<>>
                ELSE LET fileDiff == Abs(fileOf(from) - fileOf(to))
                         rankDiff == Abs(rankOf(from) - rankOf(to))
                         target == b.squares[to]
                     IN  IF (fileDiff = 2 /\ rankDiff = 1) \/ (fileDiff = 1 /\ rankDiff = 2)
                         THEN IF target = NO_PIECE THEN addMove(from, to, MOVE_NORMAL)
                              ELSE IF colorOf(target) # b.stm
                              THEN addMove(from, to, MOVE_CAPTURE)
                              ELSE <<>>
                         ELSE <<>>
    IN  ForDeltas(KNIGHT_DELTAS, step)

RECURSIVE SlideRay(_, _, _, _)
SlideRay(b, from, cur, delta) ==
    LET to == cur + delta
    IN  IF to < 0 \/ to >= 64 THEN <<>>
        ELSE IF Abs(fileOf(to) - fileOf(to - delta)) > 1 THEN <<>>
        ELSE LET target == b.squares[to]
             IN  IF target = NO_PIECE
                 THEN addMove(from, to, MOVE_NORMAL) \o SlideRay(b, from, to, delta)
                 ELSE IF colorOf(target) # b.stm THEN addMove(from, to, MOVE_CAPTURE)
                 ELSE <<>>

generateSlidingMoves(b, from, deltas) ==
    LET ray(delta) == SlideRay(b, from, from, delta)
    IN  ForDeltas(deltas, ray)

generateBishopMoves(b, from) == generateSlidingMoves(b, from, BISHOP_DELTAS)

generateRookMoves(b, from) == generateSlidingMoves(b, from, ROOK_DELTAS)

generateQueenMoves(b, from) == generateBishopMoves(b, from) \o generateRookMoves(b, from)

generateKingMoves(b, from) ==
    LET us == b.stm
        step(delta) ==
            LET to == from + delta
            IN  IF to < 0 \/ to >= 64 THEN <<>>
                ELSE LET fileDiff == Abs(fileOf(from) - fileOf(to))
                         rankDiff == Abs(rankOf(from) - rankOf(to))
                         target == b.squares[to]
                     IN  IF fileDiff <= 1 /\ rankDiff <= 1
                         THEN IF target = NO_PIECE THEN addMove(from, to, MOVE_NORMAL)
                              ELSE IF colorOf(target) # us
                              THEN addMove(from, to, MOVE_CAPTURE)
                              ELSE <<>>
                         ELSE <<>>
        has(flag) == BitAnd(b.castling, flag) # 0
        empty(s) == b.squares[s] = NO_PIECE
        castles ==
            IF isInCheck(b, us) THEN <<>>
            ELSE IF us = WHITE
            THEN (IF has(WHITE_KINGSIDE) /\ empty(F1) /\ empty(G1) /\ ~isAttacked(b, F1, BLACK)
                  THEN addMove(from, G1, MOVE_CASTLE) ELSE <<>>) \o
                 (IF has(WHITE_QUEENSIDE) /\ empty(D1) /\ empty(C1) /\ empty(B1)
                     /\ ~isAttacked(b, D1, BLACK)
                  THEN addMove(from, C1, MOVE_CASTLE) ELSE <<>>)
            ELSE (IF has(BLACK_KINGSIDE) /\ empty(F8) /\ empty(G8) /\ ~isAttacked(b, F8, WHITE)
                  THEN addMove(from, G8, MOVE_CASTLE) ELSE <<>>) \o
                 (IF has(BLACK_QUEENSIDE) /\ empty(D8) /\ empty(C8) /\ empty(B8)
                     /\ ~isAttacked(b, D8, WHITE)
                  THEN addMove(from, C8, MOVE_CASTLE) ELSE <<>>)
    IN  ForDeltas(KING_DELTAS, step) \o castles

PieceMoves(b, sq) ==
    LET p == b.squares[sq]
    IN  IF p = NO_PIECE \/ colorOf(p) # b.stm THEN <<>>
        ELSE CASE typeOf(p) = PAWN -> generatePawnMoves(b, sq)
               [] typeOf(p) = KNIGHT -> generateKnightMoves(b, sq)
               [] typeOf(p) = BISHOP -> generateBishopMoves(b, sq)
               [] typeOf(p) = ROOK -> generateRookMoves(b, sq)
               [] typeOf(p) = QUEEN -> generateQueenMoves(b, sq)
               [] typeOf(p) = KING -> generateKingMoves(b, sq)

(* for (Square sq = 0; sq < 64; ++sq) *)
ForSquares(f(_)) == Flatten([i \in 1..64 |-> f(i - 1)], 1, 64)

generateMoves(b) ==
    LET gen(sq) == PieceMoves(b, sq)
    IN  ForSquares(gen)

generateLegalMoves(b) ==
    LET legal(m) == isLegalMove(b, m)
    IN  SelectSeq(generateMoves(b), legal)

(* generateCaptures: captures, en passant and capture-promotions only *)
RECURSIVE CaptureRay(_, _, _, _)
CaptureRay(b, from, cur, delta) ==
    LET to == cur + delta
    IN  IF to < 0 \/ to >= 64 THEN <<>>
        ELSE IF Abs(fileOf(to) - fileOf(to - delta)) > 1 THEN <<>>
        ELSE LET target == b.squares[to]
             IN  IF target # NO_PIECE
                 THEN IF colorOf(target) = 1 - b.stm THEN addMove(from, to, MOVE_CAPTURE)
                      ELSE <<>>
                 ELSE CaptureRay(b, from, to, delta)

PieceCaptures(b, sq) ==
    LET p == b.squares[sq]
        us == b.stm
        them == 1 - us
        direction == IF us = WHITE THEN 8 ELSE -8
        promoRank == IF us = WHITE THEN 6 ELSE 1
        pawnCapt(delta) ==
            LET to == sq + delta
            IN  IF /\ Abs(delta) \in {7, 9}
                   /\ to >= 0 /\ to < 64
                   /\ Abs(fileOf(sq) - fileOf(to)) = 1
                   /\ b.squares[to] # NO_PIECE
                   /\ colorOf(b.squares[to]) = them
                THEN IF rankOf(sq) = promoRank
                     THEN PromotionMoves(sq, to, MOVE_CAPTURE)
                     ELSE addMove(sq, to, MOVE_CAPTURE)
                ELSE <<>>
        ep == b.epSquare
        enpassant ==
            IF /\ ep # NO_SQUARE
               /\ Abs(fileOf(sq) - fileOf(ep)) = 1
               /\ rankOf(ep) = rankOf(sq) + (IF us = WHITE THEN 1 ELSE -1)
            THEN addMove(sq, ep, MOVE_EN_PASSANT)
            ELSE <<>>
        knightCapt(delta) ==
            LET to == sq + delta
            IN  IF to < 0 \/ to >= 64 THEN <<>>
                ELSE LET fd == Abs(fileOf(sq) - fileOf(to))
                         rd == Abs(rankOf(sq) - rankOf(to))
                     IN  IF /\ (fd = 2 /\ rd = 1) \/ (fd = 1 /\ rd = 2)
                            /\ b.squares[to] # NO_PIECE
                            /\ colorOf(b.squares[to]) = them
                         THEN addMove(sq, to, MOVE_CAPTURE) ELSE <<>>
        kingCapt(delta) ==
            LET to == sq + delta
            IN  IF to < 0 \/ to >= 64 THEN <<>>
                ELSE IF /\ Abs(fileOf(sq) - fileOf(to)) <= 1
                        /\ Abs(rankOf(sq) - rankOf(to)) <= 1
                        /\ b.squares[to] # NO_PIECE
                        /\ colorOf(b.squares[to]) = them
                     THEN addMove(sq, to, MOVE_CAPTURE) ELSE <<>>
        ray(delta) == CaptureRay(b, sq, sq, delta)
    IN  IF p = NO_PIECE \/ colorOf(p) # us THEN <<>>
        ELSE CASE typeOf(p) = PAWN ->
                    pawnCapt(direction - 1) \o pawnCapt(direction + 1) \o enpassant
               [] typeOf(p) = KNIGHT -> ForDeltas(KNIGHT_DELTAS, knightCapt)
               [] typeOf(p) = BISHOP -> ForDeltas(BISHOP_DELTAS, ray)
               [] typeOf(p) = ROOK -> ForDeltas(ROOK_DELTAS, ray)
               [] typeOf(p) = QUEEN -> ForDeltas(QUEEN_DELTAS, ray)
               [] typeOf(p) = KING -> ForDeltas(KING_DELTAS, kingCapt)

(* The captures of the pawns alone *)
generateCapturesOfPawns(b) ==
    LET gen(sq) == IF b.squares[sq] # NO_PIECE /\ typeOf(b.squares[sq]) = PAWN
                   THEN PieceCaptures(b, sq) ELSE <<>>
    IN  ForSquares(gen)

(* Every pseudo-legal move, the quiet ones too *)
generateCapturesAndQuiet(b) == generateMoves(b)

generateCaptures(b) ==
    LET gen(sq) == PieceCaptures(b, sq)
    IN  ForSquares(gen)

----------------------------------------------------------------------------
(* board.cpp, utils.h: FEN parse.  A string is a sequence of characters.   *)

DIGITS == <<"0", "1", "2", "3", "4", "5", "6", "7", "8", "9">>

UPPER_LETTERS ==
    <<"A", "B", "C", "D", "E", "F", "G", "H", "I", "J", "K", "L", "M",
      "N", "O", "P", "Q", "R", "S", "T", "U", "V", "W", "X", "Y", "Z">>

LOWER_LETTERS ==
    <<"a", "b", "c", "d", "e", "f", "g", "h", "i", "j", "k", "l", "m",
      "n", "o", "p", "q", "r", "s", "t", "u", "v", "w", "x", "y", "z">>

(* The character codes of the characters a FEN or a move string is made of *)
Ascii ==
    [c \in {DIGITS[i] : i \in 1..10} \cup {UPPER_LETTERS[i] : i \in 1..26} \cup
            {LOWER_LETTERS[i] : i \in 1..26} \cup {"/", "-", " "} |->
        IF \E i \in 1..10 : DIGITS[i] = c THEN 47 + (CHOOSE i \in 1..10 : DIGITS[i] = c)
        ELSE IF \E i \in 1..26 : UPPER_LETTERS[i] = c THEN 64 + (CHOOSE i \in 1..26 : UPPER_LETTERS[i] = c)
        ELSE IF \E i \in 1..26 : LOWER_LETTERS[i] = c THEN 96 + (CHOOSE i \in 1..26 : LOWER_LETTERS[i] = c)
        ELSE IF c = "/" THEN 47
        ELSE IF c = "-" THEN 45
        ELSE 32]

(* types.h squareToString: 'a' + file, then '1' + rank *)
squareToString(s) == <<LOWER_LETTERS[fileOf(s) + 1], DIGITS[rankOf(s) + 2]>>

isdigit(c) == Ascii[c] >= 48 /\ Ascii[c] <= 57

islower(c) == Ascii[c] >= 97 /\ Ascii[c] <= 122

tolower(c) == IF Ascii[c] >= 65 /\ Ascii[c] <= 90 THEN Ascii[c] + 32 ELSE Ascii[c]

(* utils.h split: the non-empty tokens between delimiters.  SplitRange is  *)
(* the getline loop over the characters lo..hi, from the state st = the    *)
(* token being read and the tokens pushed so far.                          *)
RECURSIVE SplitRange(_, _, _, _, _)
SplitRange(str, delimiter, lo, hi, st) ==
    IF lo > hi THEN st
    ELSE IF lo = hi
    THEN IF str[lo] = delimiter
         THEN [token |-> <<>>,
               tokens |-> IF st.token # <<>> THEN Append(st.tokens, st.token)
                          ELSE st.tokens]
         ELSE [token |-> Append(st.token, str[lo]), tokens |-> st.tokens]
    ELSE LET mid == (lo + hi) \div 2
         IN  Then(SplitRange(str, delimiter, lo, mid, st),
                  LAMBDA st2 : SplitRange(str, delimiter, mid + 1, hi, st2))

split(str, delimiter) ==
    LET st == SplitRange(str, delimiter, 1, Len(str), [token |-> <<>>, tokens |-> <<>>])
    IN  IF st.token # <<>> THEN Append(st.tokens, st.token) ELSE st.tokens

(* std::stoi of a run of decimal digits *)
RECURSIVE StoiFrom(_, _, _)
StoiFrom(str, i, acc) ==
    IF i > Len(str) \/ ~isdigit(str[i]) THEN acc
    ELSE StoiFrom(str, i + 1, acc * 10 + (Ascii[str[i]] - 48))

stoi(str) == StoiFrom(str, 1, 0)

FenPiece(c) ==
    LET l == tolower(c)
        black == islower(c)
    IN  IF l = 112 THEN (IF black THEN BLACK_PAWN ELSE WHITE_PAWN)
        ELSE IF l = 110 THEN (IF black THEN BLACK_KNIGHT ELSE WHITE_KNIGHT)
        ELSE IF l = 98 THEN (IF black THEN BLACK_BISHOP ELSE WHITE_BISHOP)
        ELSE IF l = 114 THEN (IF black THEN BLACK_ROOK ELSE WHITE_ROOK)
        ELSE IF l = 113 THEN (IF black THEN BLACK_QUEEN ELSE WHITE_QUEEN)
        ELSE IF l = 107 THEN (IF black THEN BLACK_KING ELSE WHITE_KING)
        ELSE NO_PIECE

(* The piece-placement loop over the characters lo..hi, from the state    *)
(* st = [rank, file, squares].  The positions parsed here keep every store *)
(* inside the squares array.                                               *)
RECURSIVE ParsePieces(_, _, _, _)
ParsePieces(str, lo, hi, st) ==
    IF lo > hi THEN st
    ELSE IF lo = hi
    THEN LET c == str[lo]
         IN  IF c = "/" THEN [st EXCEPT !.rank = st.rank - 1, !.file = 0]
             ELSE IF isdigit(c) THEN [st EXCEPT !.file = st.file + (Ascii[c] - 48)]
             ELSE IF FenPiece(c) # NO_PIECE
             THEN [st EXCEPT !.squares[makeSquare(st.file, st.rank)] = FenPiece(c),
                             !.file = st.file + 1]
             ELSE st
    ELSE LET mid == (lo + hi) \div 2
         IN  Then(ParsePieces(str, lo, mid, st),
                  LAMBDA st2 : ParsePieces(str, mid + 1, hi, st2))

RECURSIVE ParseCastling(_, _, _)
ParseCastling(str, i, castling) ==
    IF i > Len(str) THEN castling
    ELSE ParseCastling(str, i + 1,
            IF str[i] = "K" THEN BitOr(castling, WHITE_KINGSIDE)
            ELSE IF str[i] = "Q" THEN BitOr(castling, WHITE_QUEENSIDE)
            ELSE IF str[i] = "k" THEN BitOr(castling, BLACK_KINGSIDE)
            ELSE IF str[i] = "q" THEN BitOr(castling, BLACK_QUEENSIDE)
            ELSE castling)

(* The hash computed from scratch over the squares lo..hi *)
RECURSIVE HashSquares(_, _, _, _)
HashSquares(squares, lo, hi, hash) ==
    IF lo = hi
    THEN IF squares[lo] # NO_PIECE THEN Xor(hash, zobristPieces(squares[lo], lo)) ELSE hash
    ELSE LET mid == (lo + hi) \div 2
         IN  Then(HashSquares(squares, lo, mid, hash),
                  LAMBDA h : HashSquares(squares, mid + 1, hi, h))

setFromFEN(b, fen) ==
    LET cleared == [s \in 0..63 |-> NO_PIECE]
        \* the fields parsed from the parts, before the hash is calculated
        parsed(parts) ==
            [squares |-> ParsePieces(parts[1], 1, Len(parts[1]),
                                     [rank |-> 7, file |-> 0, squares |-> cleared]).squares,
             stm |-> IF parts[2] = <<"w">> THEN WHITE ELSE BLACK,
             castling |-> ParseCastling(parts[3], 1, 0),
             epSquare |-> IF parts[4] # <<"-">>
                          THEN makeSquare(Ascii[parts[4][1]] - 97,
                                          (IF Len(parts[4]) >= 2
                                           THEN Ascii[parts[4][2]] ELSE 0) - 49)
                          ELSE NO_SQUARE,
             halfmoves |-> IF Len(parts) > 4 THEN stoi(parts[5]) ELSE 0,
             fullmoves |-> IF Len(parts) > 5 THEN stoi(parts[6]) ELSE 1]
        hashed(p) ==
            LET h1 == HashSquares(p.squares, 0, 63, {})
                h2 == Xor(h1, zobristCastling(p.castling))
                h3 == IF p.epSquare # NO_SQUARE
                      THEN Xor(h2, zobristEpFile(fileOf(p.epSquare))) ELSE h2
            IN  IF p.stm = BLACK THEN Xor(h3, zobristSideToMove) ELSE h3
    IN  Then(split(fen, " "), LAMBDA parts :
            IF Len(parts) < 4 THEN [b EXCEPT !.squares = cleared]
            ELSE Then(parsed(parts), LAMBDA p :
                     Then(hashed(p), LAMBDA hash :
                         [squares |-> p.squares, stm |-> p.stm, castling |-> p.castling,
                          epSquare |-> p.epSquare, halfmoves |-> p.halfmoves,
                          fullmoves |-> p.fullmoves,
                          bitboards |-> b.bitboards, hash |-> hash,
                          hashHistory |-> <<hash>>, history |-> <<>>])))

FEN_START ==
    <<"r", "n", "b", "q", "k", "b", "n", "r", "/", "p", "p", "p", "p", "p",
      "p", "p", "p", "/", "8", "/", "8", "/", "8", "/", "8", "/", "P", "P",
      "P", "P", "P", "P", "P", "P", "/", "R", "N", "B", "Q", "K", "B", "N",
      "R", " ", "w", " ", "K", "Q", "k", "q", " ", "-", " ", "0", " ", "1">>

FEN_CASTLE ==
    <<"r", "3", "k", "2", "r", "/", "8", "/", "8", "/", "8", "/", "8", "/",
      "8", "/", "8", "/", "R", "3", "K", "2", "R", " ", "w", " ", "K", "Q",
      "k", "q", " ", "-", " ", "4", " ", "9">>

FEN_EP ==
    <<"4", "k", "3", "/", "8", "/", "8", "/", "8", "/", "3", "p", "4", "/",
      "8", "/", "4", "P", "3", "/", "4", "K", "3", " ", "w", " ", "-", " ",
      "-", " ", "0", " ", "1">>

FEN_EP_SET ==
    <<"4", "k", "3", "/", "8", "/", "8", "/", "8", "/", "3", "p", "P", "3",
      "/", "8", "/", "8", "/", "4", "K", "3", " ", "b", " ", "-", " ", "e",
      "3", " ", "0", " ", "1">>

FEN_PROMO ==
    <<"1", "n", "2", "k", "3", "/", "P", "7", "/", "8", "/", "8", "/", "8",
      "/", "8", "/", "p", "7", "/", "1", "N", "2", "K", "3", " ", "w", " ",
      "-", " ", "-", " ", "2", " ", "3", "0">>

(* The twelve per-piece bitboards, each the set of its set bits, indexed   *)
(* by the piece they are named for.  No constructor initialises them and  *)
(* no member function assigns them.                                       *)
NoBits == [p \in WHITE_PAWN..BLACK_KING |-> {}]

AllBits == [p \in WHITE_PAWN..BLACK_KING |-> 0..63]

(* The bitboards that would agree with the mailbox squares *)
BitsOf(squares) ==
    [p \in WHITE_PAWN..BLACK_KING |-> {s \in 0..63 : squares[s] = p}]

(* Board::Board(): reset() parses the start position over the fresh object *)
FreshBoard ==
    [squares |-> [s \in 0..63 |-> NO_PIECE], stm |-> WHITE, castling |-> 0,
     epSquare |-> NO_SQUARE, halfmoves |-> 0, fullmoves |-> 0,
     bitboards |-> NoBits, hash |-> {},
     hashHistory |-> <<>>, history |-> <<>>]

reset(b) == setFromFEN(b, FEN_START)

----------------------------------------------------------------------------
(* The Board under a driver that parses positions, makes legal moves and   *)
(* takes them back (the UCI position command, perft, the search).          *)
(* snapshots records, for each length of the undo stack up to the current  *)
(* one, the board as it was when the stack had that length.                *)

MaxPly == 2

FENS == {FEN_START, FEN_CASTLE, FEN_EP, FEN_EP_SET, FEN_PROMO}

(* setFromFEN assigns every field of the board when the FEN has its four   *)
(* parts, as each of FENS has; the boards they leave are parsed once.      *)
Positions == {setFromFEN(FreshBoard, fen) : fen \in FENS}

vars == <<board, lastOp, snapshots, rep, search, trace, uci>>

NoCall == [called |-> FALSE, result |-> "none", reads |-> {}]

(* No Search object, nothing searched *)
NoSearch == [pc |-> "none"]

NoTrace == [made |-> "none"]

(* No front-end *)
NoUCI == [cmd |-> "none"]

(* What the uninitialised bitboard members of a new Board may hold: any   *)
(* bits at all, among them the ones that happen to agree with the start   *)
(* position.                                                              *)
INDETERMINATE_BITBOARDS == {NoBits, AllBits, BitsOf(reset(FreshBoard).squares)}

Init ==
    /\ \E bits \in INDETERMINATE_BITBOARDS :
          \E new \in {[reset(FreshBoard) EXCEPT !.bitboards = bits]} :
             /\ board = new
             /\ snapshots = <<new>>
    /\ lastOp = [op |-> "new", flags |-> 0]
    /\ rep = NoCall
    /\ search = NoSearch
    /\ trace = NoTrace
    /\ uci = NoUCI

SetFromFEN ==
    /\ \E parsed \in Positions :
          \E pos \in {[parsed EXCEPT !.bitboards = board.bitboards]} :
             /\ board' = pos
             /\ lastOp' = [op |-> "fen", flags |-> 0]
             /\ snapshots' = <<pos>>
    /\ UNCHANGED <<rep, search, trace, uci>>

MakeMoveWithin(plies) ==
    /\ Len(board.history) < plies
    /\ \E moves \in {generateLegalMoves(board)} :
          \E i \in 1..Len(moves) :
             \E m \in {moves[i]} :
                \E after \in {makeMove(board, m)} :
                   /\ board' = after
                   /\ lastOp' = [op |-> "make", flags |-> MoveFlags(m)]
                   /\ snapshots' = Append(snapshots, after)
    /\ UNCHANGED <<rep, search, trace, uci>>

UnmakeMove ==
    /\ Len(board.history) > 0
    /\ \E m \in {board.history[Len(board.history)].move} :
          /\ board' = unmakeMove(board, m)
          /\ lastOp' = [op |-> "unmake", flags |-> MoveFlags(m)]
          /\ snapshots' = PopBack(snapshots)
    /\ UNCHANGED <<rep, search, trace, uci>>

MakeMove == MakeMoveWithin(MaxPly)

Next == SetFromFEN \/ MakeMove \/ UnmakeMove

Spec == Init /\ [][Next]_vars

(* The same driver for the properties of the move generators, which are   *)
(* functions of the position alone                                         *)
GenPly == 1

GenNext == SetFromFEN \/ MakeMoveWithin(GenPly) \/ UnmakeMove

GenSpec == Init /\ [][GenNext]_vars

----------------------------------------------------------------------------
(* setFromFEN on malformed input, over the boards the driver reaches.      *)
(* Moves are made and taken back only on boards parsed from the well-      *)
(* formed FENs.                                                            *)

(* Three fields only *)
FEN_THREE_FIELDS ==
    <<"4", "k", "3", "/", "8", "/", "8", "/", "8", "/", "8", "/", "8", "/",
      "8", "/", "4", "K", "3", " ", "w", " ", "-">>

(* The character X among the pieces *)
FEN_BAD_PIECE ==
    <<"4", "k", "3", "/", "8", "/", "8", "/", "8", "/", "8", "/", "8", "/",
      "8", "/", "3", "X", "K", "3", " ", "w", " ", "-", " ", "-", " ", "0",
      " ", "1">>

(* A first rank of seven squares *)
FEN_SHORT_RANK ==
    <<"4", "k", "3", "/", "8", "/", "8", "/", "8", "/", "8", "/", "8", "/",
      "8", "/", "4", "K", "2", " ", "w", " ", "-", " ", "-", " ", "0", " ",
      "1">>

(* No black king *)
FEN_NO_KING ==
    <<"8", "/", "8", "/", "8", "/", "8", "/", "8", "/", "8", "/", "8", "/",
      "4", "K", "3", " ", "w", " ", "-", " ", "-", " ", "0", " ", "1">>

(* Two white kings *)
FEN_TWO_KINGS ==
    <<"4", "k", "3", "/", "8", "/", "8", "/", "8", "/", "8", "/", "8", "/",
      "8", "/", "K", "3", "K", "3", " ", "w", " ", "-", " ", "-", " ", "0",
      " ", "1">>

MALFORMED_FENS ==
    {FEN_THREE_FIELDS, FEN_BAD_PIECE, FEN_SHORT_RANK, FEN_NO_KING,
     FEN_TWO_KINGS}

(* setFromFEN of a malformed FEN on the board as it is; before is the      *)
(* board the call found                                                    *)
SetFromMalformedFEN ==
    /\ lastOp.op # "malformed"
    /\ \E fen \in MALFORMED_FENS :
          board' = setFromFEN(board, fen)
    /\ lastOp' = [op |-> "malformed", flags |-> 0, before |-> board]
    /\ UNCHANGED <<snapshots, rep, search, trace, uci>>

FenNext ==
    \/ SetFromFEN
    \/ lastOp.op # "malformed" /\ MakeMove
    \/ lastOp.op # "malformed" /\ UnmakeMove
    \/ SetFromMalformedFEN

FenSpec == Init /\ [][FenNext]_vars

----------------------------------------------------------------------------
(* isDrawByRepetition over the hash histories a game can build: the first *)
(* entry is pushed by setFromFEN and every makeMove pushes the hash of the *)
(* position it reaches.  A position is told from the others by one key;   *)
(* the side key alternates, and a position differs from the position two   *)
(* plies before it.                                                        *)

MaxHistory == 10

POSITION_KEYS == {1, 2, 3}

HashOf(key, stm) == {key} \cup (IF stm = BLACK THEN {zobristSideToMove} ELSE {})

RepInit ==
    /\ \E key \in POSITION_KEYS :
          board = [FreshBoard EXCEPT !.hash = HashOf(key, WHITE),
                                     !.hashHistory = <<HashOf(key, WHITE)>>]
    /\ lastOp = [op |-> "fen", flags |-> 0]
    /\ snapshots = <<>>
    /\ rep = NoCall
    /\ search = NoSearch
    /\ trace = NoTrace
    /\ uci = NoUCI

(* hashHistory.push_back(hash) of makeMove *)
PushHash ==
    /\ Len(board.hashHistory) < MaxHistory
    /\ \E key \in POSITION_KEYS :
          \E h \in {HashOf(key, 1 - board.stm)} :
             /\ Len(board.hashHistory) >= 2 =>
                    h # board.hashHistory[Len(board.hashHistory) - 1]
             /\ board' = [board EXCEPT !.stm = 1 - board.stm, !.hash = h,
                                        !.hashHistory = Append(@, h)]
    /\ lastOp' = [op |-> "make", flags |-> 0]
    /\ rep' = NoCall
    /\ UNCHANGED <<snapshots, search, trace, uci>>

CallIsDrawByRepetition ==
    /\ ~rep.called
    /\ \E r \in isDrawByRepetition(board) :
          rep' = [called |-> TRUE, result |-> r, reads |-> isDrawByRepetitionReads(board)]
    /\ UNCHANGED <<board, lastOp, snapshots, search, trace, uci>>

RepNext == PushHash \/ CallIsDrawByRepetition

RepSpec == RepInit /\ [][RepNext]_vars

-----------------------------------------------------------------------------
(* The Board from positions whose castling rights agree with the kings and *)
(* rooks on their home squares, under a driver that makes legal moves and  *)
(* takes them back.                                                        *)

CastlePly == 2

(* r3k2r/1P6/8/8/8/8/1p6/R3K2R w KQkq - 0 1 *)
FEN_CASTLE_PAWNS ==
    <<"r", "3", "k", "2", "r", "/", "1", "P", "6", "/", "8", "/", "8", "/",
      "8", "/", "8", "/", "1", "p", "6", "/", "R", "3", "K", "2", "R", " ",
      "w", " ", "K", "Q", "k", "q", " ", "-", " ", "0", " ", "1">>

CASTLE_FENS == {FEN_CASTLE, FEN_CASTLE_PAWNS}

CastleInit ==
    /\ \E fen \in CASTLE_FENS :
          \E pos \in {setFromFEN(FreshBoard, fen)} :
             /\ board = pos
             /\ snapshots = <<pos>>
    /\ lastOp = [op |-> "fen", flags |-> 0]
    /\ rep = NoCall
    /\ search = NoSearch
    /\ trace = NoTrace
    /\ uci = NoUCI

CastleNext == MakeMoveWithin(CastlePly) \/ UnmakeMove

CastleSpec == CastleInit /\ [][CastleNext]_vars

----------------------------------------------------------------------------
(* The Board from positions with pawns that can push two squares beside an *)
(* opposing pawn, under a driver that makes legal moves and takes them     *)
(* back.                                                                   *)

EpPly == 3

(* 4k3/p2p4/8/4P2P/8/8/8/4K3 b - - 0 1 *)
FEN_EP_BLACK ==
    <<"4", "k", "3", "/", "p", "2", "p", "4", "/", "8", "/", "4", "P", "2",
      "P", "/", "8", "/", "8", "/", "8", "/", "4", "K", "3", " ", "b", " ",
      "-", " ", "-", " ", "0", " ", "1">>

EP_FENS == {FEN_EP, FEN_EP_SET, FEN_EP_BLACK}

EpInit ==
    /\ \E fen \in EP_FENS :
          \E pos \in {setFromFEN(FreshBoard, fen)} :
             /\ board = pos
             /\ snapshots = <<pos>>
    /\ lastOp = [op |-> "fen", flags |-> 0]
    /\ rep = NoCall
    /\ search = NoSearch
    /\ trace = NoTrace
    /\ uci = NoUCI

EpNext == MakeMoveWithin(EpPly) \/ UnmakeMove

EpSpec == EpInit /\ [][EpNext]_vars

----------------------------------------------------------------------------
(* perft_test.cpp: the perft driver on the reference positions.  search    *)
(* holds the call stack of perft: for each call in progress its depth, its *)
(* move list, the index of the move made and the nodes counted so far.     *)

PerftDepth == 2

(* r3k2r/p1ppqpb1/bn2pnp1/3PN3/1p2P3/2N2Q1p/PPPBBPPP/R3K2R w KQkq - 0 1 *)
FEN_KIWIPETE ==
    <<"r", "3", "k", "2", "r", "/", "p", "1", "p", "p", "q", "p", "b",
      "1", "/", "b", "n", "2", "p", "n", "p", "1", "/", "3", "P", "N",
      "3", "/", "1", "p", "2", "P", "3", "/", "2", "N", "2", "Q", "1",
      "p", "/", "P", "P", "P", "B", "B", "P", "P", "P", "/", "R", "3",
      "K", "2", "R", " ", "w", " ", "K", "Q", "k", "q", " ", "-", " ",
      "0", " ", "1">>

(* 8/2p5/3p4/KP5r/1R3p1k/8/4P1P1/8 w - - 0 1 *)
FEN_ENDGAME ==
    <<"8", "/", "2", "p", "5", "/", "3", "p", "4", "/", "K", "P", "5",
      "r", "/", "1", "R", "3", "p", "1", "k", "/", "8", "/", "4", "P",
      "1", "P", "1", "/", "8", " ", "w", " ", "-", " ", "-", " ", "0",
      " ", "1">>

(* r3k2r/Pppp1ppp/1b3nbN/nP6/BBP1P3/q4N2/Pp1P2PP/R2Q1RK1 w kq - 0 1 *)
FEN_PROMOTION ==
    <<"r", "3", "k", "2", "r", "/", "P", "p", "p", "p", "1", "p", "p",
      "p", "/", "1", "b", "3", "n", "b", "N", "/", "n", "P", "6", "/",
      "B", "B", "P", "1", "P", "3", "/", "q", "4", "N", "2", "/", "P",
      "p", "1", "P", "2", "P", "P", "/", "R", "2", "Q", "1", "R", "K",
      "1", " ", "w", " ", "k", "q", " ", "-", " ", "0", " ", "1">>

(* rnbq1k1r/pp1Pbppp/2p5/8/2B5/8/PPP1NnPP/RNBQK2R w KQ - 1 8 *)
FEN_COMPLEX ==
    <<"r", "n", "b", "q", "1", "k", "1", "r", "/", "p", "p", "1", "P",
      "b", "p", "p", "p", "/", "2", "p", "5", "/", "8", "/", "2", "B",
      "5", "/", "8", "/", "P", "P", "P", "1", "N", "n", "P", "P", "/",
      "R", "N", "B", "Q", "K", "2", "R", " ", "w", " ", "K", "Q", " ",
      "-", " ", "1", " ", "8">>

(* main: the reference positions and the node counts expected of them *)
PERFT_POSITIONS ==
    {[fen |-> FEN_START, expected |-> <<20, 400, 8902, 197281>>],
     [fen |-> FEN_KIWIPETE, expected |-> <<48, 2039, 97862>>],
     [fen |-> FEN_ENDGAME, expected |-> <<14, 191, 2812, 43238>>],
     [fen |-> FEN_PROMOTION, expected |-> <<6, 264, 9467>>],
     [fen |-> FEN_COMPLEX, expected |-> <<44, 1486, 62379>>]}

(* testPosition: Board board; board.setFromFEN(fen); perft(board, depth) *)
PerftInit ==
    /\ \E p \in PERFT_POSITIONS, depth \in 1..PerftDepth :
          /\ board = setFromFEN(FreshBoard, p.fen)
          /\ search = [pc |-> "call", depth |-> depth,
                       expected |-> p.expected[depth], stack |-> <<>>,
                       ret |-> 0, result |-> 0]
    /\ lastOp = [op |-> "fen", flags |-> 0]
    /\ snapshots = <<>>
    /\ rep = NoCall
    /\ trace = NoTrace
    /\ uci = NoUCI

PerftStep(s, b) ==
    /\ search' = s
    /\ board' = b
    /\ UNCHANGED <<lastOp, snapshots, rep, trace, uci>>

(* perft lines 9-13 of a call with depth > 0: the legal moves *)
PerftFrame(b, depth) ==
    [depth |-> depth, moves |-> generateLegalMoves(b), i |-> 1, nodes |-> 0]

(* The call of testPosition *)
PerftCall ==
    /\ search.pc = "call"
    /\ PerftStep([search EXCEPT !.pc = "loop",
                                !.stack = <<PerftFrame(board, search.depth)>>],
                 board)

(* perft lines 15-17: makeMove and the recursive call, which returns 1 at  *)
(* depth 0                                                                 *)
PerftMake ==
    /\ search.pc = "loop"
    /\ \E f \in {search.stack[Len(search.stack)]} :
          /\ f.i <= Len(f.moves)
          /\ \E made \in {makeMove(board, f.moves[f.i])} :
                PerftStep(IF f.depth - 1 = 0
                          THEN [search EXCEPT !.pc = "returned", !.ret = 1]
                          ELSE [search EXCEPT
                                   !.stack = Append(@, PerftFrame(made,
                                                                  f.depth - 1))],
                          made)

(* perft lines 17-18: nodes += the value returned, unmakeMove *)
PerftUnmake ==
    /\ search.pc = "returned"
    /\ \E top \in {Len(search.stack)} :
          \E f \in {search.stack[top]} :
             PerftStep([search EXCEPT !.pc = "loop",
                                     !.stack[top].nodes = @ + search.ret,
                                     !.stack[top].i = @ + 1],
                       unmakeMove(board, f.moves[f.i]))

(* perft line 21: return nodes *)
PerftReturn ==
    /\ search.pc = "loop"
    /\ \E f \in {search.stack[Len(search.stack)]} :
          /\ f.i > Len(f.moves)
          /\ PerftStep(IF Len(search.stack) = 1
                       THEN [search EXCEPT !.pc = "done", !.stack = <<>>,
                                           !.result = f.nodes]
                       ELSE [search EXCEPT !.pc = "returned",
                                           !.stack = PopBack(@),
                                           !.ret = f.nodes],
                       board)

PerftNext == PerftCall \/ PerftMake \/ PerftUnmake \/ PerftReturn

PerftSpec == PerftInit /\ [][PerftNext]_vars

----------------------------------------------------------------------------
(* board.cpp 123-179: Board::toFEN, and the Board under a driver that      *)
(* parses canonical FENs and prints the position (the UCI position and d   *)
(* commands).  trace holds the FEN parsed and the FEN printed.             *)

(* The last decimal digit of an int *)
DecimalOfLastDigit(n) == <<DIGITS[(n % 10) + 1]>>

(* operator<< of an int *)
RECURSIVE Decimal(_)
Decimal(n) ==
    IF n < 0 THEN <<"-">> \o Decimal(-n)
    ELSE IF n < 10 THEN <<DIGITS[n + 1]>>
    ELSE Decimal(n \div 10) \o <<DIGITS[(n % 10) + 1]>>

(* "PNBRQKpnbrqk"[p] *)
PieceLetter(p) ==
    (<<"P", "N", "B", "R", "Q", "K", "p", "n", "b", "r", "q", "k">>)[p + 1]

(* toFEN lines 128-147: the files file..7 of a rank, emptyCount squares     *)
(* before them being empty                                                 *)
RECURSIVE RankToFEN(_, _, _, _)
RankToFEN(squares, rank, file, emptyCount) ==
    IF file > 7
    THEN IF emptyCount > 0 THEN Decimal(emptyCount) ELSE <<>>
    ELSE IF squares[makeSquare(file, rank)] = NO_PIECE
    THEN RankToFEN(squares, rank, file + 1, emptyCount + 1)
    ELSE (IF emptyCount > 0 THEN Decimal(emptyCount) ELSE <<>>)
         \o <<PieceLetter(squares[makeSquare(file, rank)])>>
         \o RankToFEN(squares, rank, file + 1, 0)

(* toFEN lines 127-151: the ranks rank..0 *)
RECURSIVE RanksToFEN(_, _)
RanksToFEN(squares, rank) ==
    RankToFEN(squares, rank, 0, 0)
    \o (IF rank > 0 THEN <<"/">> \o RanksToFEN(squares, rank - 1) ELSE <<>>)

(* toFEN lines 156-165 *)
CastlingToFEN(castling) ==
    IF castling = 0 THEN <<"-">>
    ELSE (IF BitAnd(castling, WHITE_KINGSIDE) # 0 THEN <<"K">> ELSE <<>>)
         \o (IF BitAnd(castling, WHITE_QUEENSIDE) # 0 THEN <<"Q">> ELSE <<>>)
         \o (IF BitAnd(castling, BLACK_KINGSIDE) # 0 THEN <<"k">> ELSE <<>>)
         \o (IF BitAnd(castling, BLACK_QUEENSIDE) # 0 THEN <<"q">> ELSE <<>>)

toFEN(b) ==
    RanksToFEN(b.squares, 7)
    \o <<" ", IF b.stm = WHITE THEN "w" ELSE "b", " ">>
    \o CastlingToFEN(b.castling)
    \o <<" ">>
    \o (IF b.epSquare = NO_SQUARE THEN <<"-">> ELSE squareToString(b.epSquare))
    \o <<" ">> \o Decimal(b.halfmoves) \o <<" ">> \o Decimal(b.fullmoves)

(* The six fields of a FEN joined by single spaces *)
JoinFEN(f) ==
    f.placement \o <<" ">> \o f.stm \o <<" ">> \o f.castling \o <<" ">> \o f.ep
    \o <<" ">> \o f.halfmoves \o <<" ">> \o f.fullmoves

(* The castling fields in KQkq order *)
CASTLING_FIELDS ==
    {<<"-">>} \cup
    {s \in UNION {[1..n -> {"K", "Q", "k", "q"}] : n \in 1..4} :
        \A i \in 1..(Len(s) - 1) :
           \E j, k \in 1..4 :
              /\ j < k
              /\ (<<"K", "Q", "k", "q">>)[j] = s[i]
              /\ (<<"K", "Q", "k", "q">>)[k] = s[i + 1]}

(* 4k3/8/8/3pP3/8/8/8/4K3 w - d6 0 2 *)
FEN_EP_SET_BLACK ==
    <<"4", "k", "3", "/", "8", "/", "8", "/", "3", "p", "P", "3", "/", "8",
      "/", "8", "/", "8", "/", "4", "K", "3", " ", "w", " ", "-", " ", "d",
      "6", " ", "0", " ", "2">>

(* Canonical FENs of valid positions: kings and rooks at home with each    *)
(* set of castling rights, either side to move and counters of one to      *)
(* three digits; en-passant targets; the reference positions               *)
CANONICAL_FENS ==
    {JoinFEN(f) :
        f \in [placement : {split(FEN_CASTLE, " ")[1], split(FEN_KIWIPETE, " ")[1]},
               stm : {<<"w">>, <<"b">>},
               castling : CASTLING_FIELDS,
               ep : {<<"-">>},
               halfmoves : {<<"0">>, <<"9">>, <<"1", "2">>, <<"9", "9">>},
               fullmoves : {<<"1">>, <<"4", "0">>, <<"1", "0", "5">>}]}
    \cup {FEN_START, FEN_EP, FEN_EP_SET, FEN_EP_SET_BLACK, FEN_PROMO,
          FEN_ENDGAME, FEN_PROMOTION, FEN_COMPLEX}

(* Board::Board, and the FEN that is going to be parsed *)
CanonInit ==
    /\ board = reset(FreshBoard)
    /\ lastOp = [op |-> "new", flags |-> 0]
    /\ snapshots = <<>>
    /\ rep = NoCall
    /\ search = NoSearch
    /\ \E fen \in CANONICAL_FENS : trace = [fen |-> fen, printed |-> <<>>]
    /\ uci = NoUCI

SetFromCanonicalFEN ==
    /\ lastOp.op = "new"
    /\ board' = setFromFEN(board, trace.fen)
    /\ lastOp' = [op |-> "fen", flags |-> 0]
    /\ UNCHANGED <<snapshots, rep, search, trace, uci>>

(* UCI::loop, command d: board.toFEN() is printed *)
ToFEN ==
    /\ lastOp.op = "fen"
    /\ trace.printed = <<>>
    /\ trace' = [trace EXCEPT !.printed = toFEN(board)]
    /\ UNCHANGED <<board, lastOp, snapshots, rep, search, uci>>

CanonNext == SetFromCanonicalFEN \/ ToFEN

CanonSpec == CanonInit /\ [][CanonNext]_vars

----------------------------------------------------------------------------
(* search.h, search.cpp, evaluation2.cpp: Search *)

MATE_SCORE == 30000

DRAW_SCORE == 0

(* TTEntry::type *)
EXACT == 0

LOWER == 1

UPPER == 2

(* alphaBeta looks at the clock when (info.nodes & 2047) == 0 *)
POLL_MASK == 2047

pieceValues == <<100, 320, 330, 500, 900, 10000>>

Max(a, b) == IF a > b THEN a ELSE b

(* Evaluator::evaluate reads only the bitboards of the Board, which no     *)
(* code writes: the white-relative sum it forms from them is one value for *)
(* the whole search, garbage, and the side to move gives it its sign.      *)
evaluate(b, garbage) == IF b.stm = WHITE THEN garbage ELSE -garbage

(* Victim value - attacker value *)
mvvLvaByAttacker(b, m) ==
    IF ~isCapture(m) THEN 0
    ELSE LET attacker == b.squares[MoveFrom(m)]
             victim == IF b.squares[MoveTo(m)] = NO_PIECE
                       THEN makePiece(1 - b.stm, PAWN)
                       ELSE b.squares[MoveTo(m)]
         IN  pieceValues[typeOf(victim) + 1]
                 - pieceValues[typeOf(attacker) + 1]

mvvLva(b, m) ==
    IF ~isCapture(m) THEN 0
    ELSE LET attacker == b.squares[MoveFrom(m)]
             victim == IF b.squares[MoveTo(m)] = NO_PIECE
                       THEN makePiece(1 - b.stm, PAWN)
                       ELSE b.squares[MoveTo(m)]
         IN  pieceValues[typeOf(victim) + 1]
                 - (pieceValues[typeOf(attacker) + 1] \div 10)

(* probeTT returns nullptr when the slot does not hold the hash *)
NoEntry ==
    [valid |-> FALSE, bestMove |-> 0, score |-> 0, depth |-> 0,
     type |-> EXACT]

(* A probe that returns an entry of the table whatever the hash *)
probeAnyEntry(tt, hash) ==
    IF DOMAIN tt = {} THEN NoEntry ELSE tt[CHOOSE h \in DOMAIN tt : TRUE]

(* The table as the entries stored so far, each hash in a slot of its own *)
probeTT(tt, hash) == IF hash \in DOMAIN tt THEN tt[hash] ELSE NoEntry

(* An entry that cuts the search off whatever its depth *)
ttCutoffAnyDepth(ttEntry, depth, alpha, beta) ==
    /\ ttEntry.valid
    /\ \/ ttEntry.type = EXACT
       \/ ttEntry.type = LOWER /\ ttEntry.score >= beta
       \/ ttEntry.type = UPPER /\ ttEntry.score <= alpha

(* alphaBeta lines 91-99: the entry probeTT returned makes alphaBeta       *)
(* return its score                                                        *)
ttCutoff(ttEntry, depth, alpha, beta) ==
    /\ ttEntry.valid
    /\ ttEntry.depth >= depth
    /\ \/ ttEntry.type = EXACT
       \/ ttEntry.type = LOWER /\ ttEntry.score >= beta
       \/ ttEntry.type = UPPER /\ ttEntry.score <= alpha

storeTT(tt, hash, m, score, depth, type) ==
    [h \in DOMAIN tt \cup {hash} |->
        IF h = hash
        THEN [valid |-> TRUE, bestMove |-> m, score |-> score,
              depth |-> depth, type |-> type]
        ELSE tt[h]]

(* The comparator of orderMoves, entry being what probeTT returned, and    *)
(* the comparator of quiescence (entry NoEntry, every move a capture).     *)
MoveBefore(b, entry, byCapture, x, y) ==
    IF entry.valid /\ x = entry.bestMove THEN TRUE
    ELSE IF entry.valid /\ y = entry.bestMove THEN FALSE
    ELSE IF byCapture /\ isCapture(x) /\ ~isCapture(y) THEN TRUE
    ELSE IF byCapture /\ ~isCapture(x) /\ isCapture(y) THEN FALSE
    ELSE IF ~byCapture \/ (isCapture(x) /\ isCapture(y))
         THEN mvvLva(b, x) > mvvLva(b, y)
    ELSE FALSE

(* One step of the insertion sort std::sort runs on a short range: the     *)
(* value goes to the front when it is before the first element, otherwise  *)
(* it moves down from the end past the elements it is before.              *)
LinearInsert(sorted, val, b, entry, byCapture) ==
    IF MoveBefore(b, entry, byCapture, val, sorted[1])
    THEN <<val>> \o sorted
    ELSE \* the scan from the end stops at the first element at the latest
         LET k == CHOOSE k \in 1..Len(sorted) :
                    /\ ~MoveBefore(b, entry, byCapture, val, sorted[k])
                    /\ \A j \in (k + 1)..Len(sorted) :
                          MoveBefore(b, entry, byCapture, val, sorted[j])
         IN  SubSeq(sorted, 1, k) \o <<val>>
                 \o SubSeq(sorted, k + 1, Len(sorted))

RECURSIVE InsertionSort(_, _, _, _, _)
InsertionSort(list, n, b, entry, byCapture) ==
    IF n <= 1 THEN SubSeq(list, 1, n)
    ELSE LinearInsert(InsertionSort(list, n - 1, b, entry, byCapture),
                      list[n], b, entry, byCapture)

(* The range std::sort sorts by insertion alone *)
SORT_THRESHOLD == 16

(* std::sort: the orders it can leave.  Up to sixteen elements it is the   *)
(* insertion sort; a longer range is partitioned first, in an order the    *)
(* library chooses and, with the comparator of orderMoves, which is not a  *)
(* strict weak ordering once a table move is known, any rearrangement.     *)
stdSort(list, b, entry, byCapture) ==
    IF Len(list) <= SORT_THRESHOLD
    THEN {InsertionSort(list, Len(list), b, entry, byCapture)}
    ELSE {[i \in 1..Len(list) |-> list[p[i]]] :
            p \in Permutations(1..Len(list))}

orderMoves(moves, b, tt) == stdSort(moves, b, probeTT(tt, b.hash), TRUE)

(* timeUp: never for go infinite or without a time limit, and otherwise    *)
(* once the time elapsed since think started has reached the limit         *)
timeUp(s) ==
    IF s.infinite THEN FALSE
    ELSE IF s.timeLimit = 0 THEN FALSE
    ELSE s.expired

(* An iteration kept whether or not stop is set *)
AlwaysKept(stop) == TRUE

(* think line 37: the result of an iteration is kept when stop is not set *)
iterationKept(stop) == ~stop

(* A call of alphaBeta or quiescence: its arguments, its locals, where it  *)
(* is ("enter": called, "wait": a child searches the move it has made),    *)
(* the window it gave the child and the alpha it was entered with          *)
NewFrame(fn, depth, alpha, beta) ==
    [fn |-> fn, pc |-> "enter", depth |-> depth, alpha |-> alpha,
     beta |-> beta, alphaIn |-> alpha, moves |-> <<>>, searchedMoves |-> 0,
     bestMove |-> 0, bestScore |-> -MATE_SCORE, window |-> "full"]

(* return v; of the call on top of the stack *)
Return(s, v) == [s EXCEPT !.stack = PopBack(@), !.ret = v]

(* The call on top of the stack, now f, calls child *)
Call(s, f, child) == [s EXCEPT !.stack = Append(PopBack(@), f) \o <<child>>]

NoStore ==
    [made |-> FALSE, type |-> EXACT, bestScore |-> 0, alphaIn |-> 0,
     beta |-> 0, depth |-> 0, window |-> "full", cutoff |-> FALSE]

NoProbe ==
    [made |-> FALSE, entry |-> NoEntry, depth |-> 0, alpha |-> 0, beta |-> 0,
     frames |-> 0]

(* A step that makes no move, stores nothing and does not probe *)
Quiet(t) == [t EXCEPT !.made = "none", !.store = NoStore, !.probe = NoProbe]

Made(t, fn) == [t EXCEPT !.made = fn, !.store = NoStore, !.probe = NoProbe]

(* The step has probed the table: what probeTT returned, the arguments of  *)
(* the call of alphaBeta that probed and the number of calls on the stack  *)
Probed(t, ttEntry, f, frames) ==
    [t EXCEPT !.probe = [made |-> TRUE, entry |-> ttEntry, depth |-> f.depth,
                         alpha |-> f.alpha, beta |-> f.beta,
                         frames |-> frames]]

Stored(t, type, f, bestScore, cutoff) ==
    [t EXCEPT !.made = "none", !.probe = NoProbe,
              !.store = [made |-> TRUE, type |-> type,
                         bestScore |-> bestScore, alphaIn |-> f.alphaIn,
                         beta |-> f.beta, depth |-> f.depth,
                         window |-> f.window, cutoff |-> cutoff]]

(* The stop flag becomes set: the iteration in progress, if one is *)
StopNoted(t, s) ==
    IF s.pc = "run" /\ ~s.info.stop /\ t.stopIn = 0
    THEN [t EXCEPT !.stopIn = s.info.depth]
    ELSE t

(* timeUp has been called: no node visited since *)
Checked(t) == [t EXCEPT !.unchecked = 0]

(* A node has been visited, s being the search once it is counted:         *)
(* unchecked counts the nodes visited since timeUp was last called, which  *)
(* a node that polls does when the count is a multiple of 2048.            *)
Visited(t, s, polls) ==
    [t EXCEPT !.unchecked = IF polls /\ BitAnd(s.info.nodes, POLL_MASK) = 0
                            THEN 0 ELSE @ + 1]

SearchStep(s, b, t) ==
    /\ search' = s
    /\ board' = b
    /\ trace' = t
    /\ UNCHANGED <<lastOp, snapshots, rep, uci>>

Running(fn, pc) ==
    /\ search.pc = "run"
    /\ search.stack # <<>>
    /\ Last(search.stack).fn = fn
    /\ Last(search.stack).pc = pc

(* The positions searched: king and pawn against king; a position in      *)
(* which the bishop can capture the pawn on g7, where the pawn on h6       *)
(* guards it and only the black king can capture back; and knight against *)
(* knight, where a search of a few plies visits the 2048 nodes after which *)
(* alphaBeta looks at the clock.  No position a search of these depths     *)
(* reaches has more than sixteen moves.                                    *)
FEN_KP ==
    <<"7", "k", "/", "8", "/", "8", "/", "8", "/", "8", "/", "8", "/", "P",
      "7", "/", "K", "7", " ", "w", " ", "-", " ", "-", " ", "0", " ", "1">>

FEN_GUARD ==
    <<"7", "k", "/", "6", "p", "p", "/", "7", "P", "/", "8", "/", "8", "/",
      "8", "/", "8", "/", "B", "6", "K", " ", "w", " ", "-", " ", "-", " ",
      "0", " ", "1">>

FEN_KNIGHTS ==
    <<"8", "/", "8", "/", "3", "n", "k", "3", "/", "8", "/", "8", "/", "3",
      "N", "K", "3", "/", "8", "/", "8", " ", "w", " ", "-", " ", "-", " ",
      "0", " ", "1">>

(* The same position with black to move *)
FEN_KNIGHTS_BLACK ==
    <<"8", "/", "8", "/", "3", "n", "k", "3", "/", "8", "/", "8", "/", "3",
      "N", "K", "3", "/", "8", "/", "8", " ", "b", " ", "-", " ", "-", " ",
      "0", " ", "1">>

(* White mates by b6-b7 *)
FEN_MATE_IN_ONE ==
    <<"k", "7", "/", "P", "7", "/", "K", "P", "6", "/", "8", "/", "8", "/",
      "8", "/", "8", "/", "8", " ", "w", " ", "-", " ", "-", " ", "0", " ",
      "1">>

(* The same position with black to move: stalemate *)
FEN_STALEMATE ==
    <<"k", "7", "/", "P", "7", "/", "K", "P", "6", "/", "8", "/", "8", "/",
      "8", "/", "8", "/", "8", " ", "b", " ", "-", " ", "-", " ", "0", " ",
      "1">>

(* The position after b6-b7: checkmate *)
FEN_CHECKMATE ==
    <<"k", "7", "/", "P", "P", "6", "/", "K", "7", "/", "8", "/", "8", "/",
      "8", "/", "8", "/", "8", " ", "b", " ", "-", " ", "-", " ", "0", " ",
      "1">>

SEARCH_FENS == {FEN_KP, FEN_GUARD}

MATE_FENS == {FEN_MATE_IN_ONE, FEN_STALEMATE, FEN_CHECKMATE}

MaxDepth == 2

(* The depth of the search that is long enough to look at the clock *)
PollDepth == 5

(* Sums the evaluation can form from the bitboards: the material term     *)
(* alone, with up to 64 bits set in a bitboard, goes beyond MATE_SCORE     *)
EVAL_SCORES == {-40000, -100, 0, 100, 40000}

(* go depth d; go depth d movetime t; go depth d movetime t infinite *)
GO_LIMITS ==
    {[timeLimit |-> 0, infinite |-> FALSE],
     [timeLimit |-> 1000, infinite |-> FALSE],
     [timeLimit |-> 1000, infinite |-> TRUE]}

(* The searches: the position, the arguments of think, the value of the    *)
(* evaluation, and whether the front-end may call stopSearch               *)
Searches ==
    [fen : SEARCH_FENS, depth : 1..MaxDepth, limits : GO_LIMITS,
     garbage : EVAL_SCORES, stops : {TRUE}]
    \cup [fen : MATE_FENS, depth : 1..MaxDepth,
          limits : {[timeLimit |-> 0, infinite |-> FALSE]},
          garbage : EVAL_SCORES, stops : {TRUE}]
    \cup [fen : {FEN_KNIGHTS}, depth : {PollDepth},
          limits : {[timeLimit |-> 1000, infinite |-> FALSE]},
          garbage : {0}, stops : {FALSE}]

(* The search whose 2048th node is a quiescence node *)
PollSearches ==
    [fen : {FEN_KNIGHTS_BLACK}, depth : {PollDepth},
     limits : {[timeLimit |-> 1000, infinite |-> FALSE]},
     garbage : {0}, stops : {FALSE}]

(* UCI::handleGo on a new Search(board): think is about to be called.  The *)
(* constructor has cleared the table and info is value-initialised.        *)
(* snapshots records the board as it is when think is called.              *)
SearchInitFrom(gos) ==
    /\ lastOp = [op |-> "fen", flags |-> 0]
    /\ rep = NoCall
    /\ \E go \in gos :
          /\ \E root \in {setFromFEN(FreshBoard, go.fen)} :
                /\ board = root
                /\ snapshots = <<root>>
          /\ search = [pc |-> "idle", depth |-> go.depth,
                       timeLimit |-> go.limits.timeLimit,
                       infinite |-> go.limits.infinite,
                       garbage |-> go.garbage, stops |-> go.stops,
                       expired |-> FALSE, d |-> 0, bestMove |-> 0,
                       result |-> 0,
                       info |-> [depth |-> 0, seldepth |-> 0, nodes |-> 0,
                                 score |-> 0, pv |-> <<>>, stop |-> FALSE],
                       tt |-> <<>>, stack |-> <<>>, ret |-> 0,
                       printed |-> <<>>]
    /\ trace = [made |-> "none", store |-> NoStore, probe |-> NoProbe,
                iterations |-> <<>>, stopIn |-> 0, unchecked |-> 0]
    /\ uci = NoUCI

SearchInit == SearchInitFrom(Searches)

(* think lines 15-27: info is reset, stop cleared, the clock started *)
ThinkStart ==
    /\ search.pc = "idle"
    /\ SearchStep([search EXCEPT !.pc = "loop", !.expired = FALSE,
                                 !.info = [depth |-> 0, seldepth |-> 0,
                                           nodes |-> 0, score |-> 0,
                                           pv |-> <<>>, stop |-> FALSE],
                                 !.bestMove = 0, !.d = 1],
                  board, Quiet(trace))

(* think line 30 to the call of line 35, or the return of line 69 *)
ThinkLoop ==
    /\ search.pc = "loop"
    /\ IF search.d <= search.depth /\ ~search.info.stop
       THEN SearchStep([search EXCEPT
                           !.pc = "run", !.info.depth = search.d,
                           !.info.seldepth = 0, !.info.pv = <<>>,
                           !.stack = <<NewFrame("alphaBeta", search.d,
                                                -MATE_SCORE, MATE_SCORE)>>],
                       board, Quiet(trace))
       ELSE SearchStep([search EXCEPT !.pc = "done",
                                      !.result = search.bestMove],
                       board, Quiet(trace))

(* think lines 37-66 once alphaBeta has returned *)
ThinkAfter ==
    /\ search.pc = "run"
    /\ search.stack = <<>>
    /\ \E kept \in {IF iterationKept(search.info.stop)
                    THEN [search EXCEPT
                             !.info.score = search.ret,
                             !.bestMove = IF search.info.pv # <<>>
                                          THEN search.info.pv[1] ELSE @]
                    ELSE search} :
          SearchStep(IF timeUp(kept)
                     THEN [kept EXCEPT !.pc = "done",
                                       !.result = kept.bestMove]
                     ELSE [kept EXCEPT !.pc = "loop", !.d = @ + 1],
                     board,
                     IF iterationKept(search.info.stop)
                     THEN [Quiet(Checked(trace)) EXCEPT
                              !.iterations =
                                  Append(@, [bestMove |-> kept.bestMove,
                                             score |-> kept.info.score])]
                     ELSE Quiet(Checked(trace)))

(* alphaBeta lines 73-133: from the entry to the first child *)
AlphaBetaEnter ==
    /\ Running("alphaBeta", "enter")
    /\ \E f \in {Last(search.stack)} :
       IF search.info.stop
       THEN SearchStep(Return(search, 0), board, Quiet(trace))
       ELSE
       \E s \in {[search EXCEPT
                     !.info.nodes = @ + 1,
                     !.info.seldepth = Max(@, search.info.depth - f.depth)]} :
       IF BitAnd(s.info.nodes, POLL_MASK) = 0 /\ timeUp(s)
       THEN SearchStep(Return([s EXCEPT !.info.stop = TRUE], 0), board,
                       Quiet(StopNoted(Visited(trace, s, TRUE), s)))
       ELSE
       \E repetition \in isDrawByRepetition(board) :
       IF repetition = "fault"
       THEN SearchStep([s EXCEPT !.pc = "fault"], board, Quiet(Visited(trace, s, TRUE)))
       ELSE IF repetition = "true" \/ isDrawByFiftyMoves(board)
       THEN SearchStep(Return(s, DRAW_SCORE), board, Quiet(Visited(trace, s, TRUE)))
       ELSE
       \E ttEntry \in {probeTT(s.tt, board.hash)} :
       \E probed \in {Probed(Quiet(Visited(trace, s, TRUE)), ttEntry, f,
                              Len(s.stack))} :
       IF ttCutoff(ttEntry, f.depth, f.alpha, f.beta)
       THEN SearchStep(Return(s, ttEntry.score), board, probed)
       ELSE IF f.depth <= 0
       THEN \* return quiescence(alpha, beta);
            SearchStep([s EXCEPT !.stack =
                           Append(PopBack(@),
                                  NewFrame("quiescence", 0, f.alpha, f.beta))],
                       board, probed)
       ELSE
       \E legal \in {generateLegalMoves(board)} :
       IF legal = <<>>
       THEN SearchStep(Return(s, IF isInCheck(board, board.stm)
                                 THEN -MATE_SCORE + (s.info.depth - f.depth)
                                 ELSE DRAW_SCORE),
                       board, probed)
       ELSE
       \E moves \in orderMoves(legal, board, s.tt) :
          SearchStep(Call(s, [f EXCEPT !.pc = "wait", !.moves = moves],
                          NewFrame("alphaBeta", f.depth - 1, -f.beta,
                                   -f.alpha)),
                     makeMove(board, moves[1]),
                     [probed EXCEPT !.made = "alphaBeta"])

(* alphaBeta lines 134-172: a child has returned *)
AlphaBetaAfterChild ==
    /\ Running("alphaBeta", "wait")
    /\ \E f \in {Last(search.stack)}, score \in {-search.ret} :
       IF f.window = "null" /\ score > f.alpha /\ score < f.beta
       THEN \* the full window after the null window
            SearchStep(Call(search, [f EXCEPT !.window = "research"],
                            NewFrame("alphaBeta", f.depth - 1, -f.beta,
                                     -f.alpha)),
                       board, Quiet(trace))
       ELSE
       \E m \in {f.moves[f.searchedMoves + 1]} :
       \E unmade \in {unmakeMove(board, m)} :
       IF search.info.stop
       THEN SearchStep(Return(search, 0), unmade, Quiet(trace))
       ELSE
       \E better \in {score > f.bestScore} :
       \E raised \in {better /\ score > f.alpha} :
       \E g \in {[f EXCEPT !.searchedMoves = @ + 1,
                           !.bestScore = IF better THEN score ELSE @,
                           !.bestMove = IF better THEN m ELSE @,
                           !.alpha = IF raised THEN score ELSE @]},
          s \in {IF raised THEN [search EXCEPT !.info.pv = <<m>>]
                 ELSE search} :
       IF raised /\ score >= f.beta
       THEN SearchStep(Return([s EXCEPT !.tt = storeTT(@, unmade.hash, m, score,
                                                       f.depth, LOWER)],
                              score),
                       unmade, Stored(trace, LOWER, f, score, TRUE))
       ELSE IF g.searchedMoves < Len(g.moves)
       THEN SearchStep(Call(s, [g EXCEPT !.window = "null"],
                            NewFrame("alphaBeta", g.depth - 1, -g.alpha - 1,
                                     -g.alpha)),
                       makeMove(unmade, g.moves[g.searchedMoves + 1]),
                       Made(trace, "alphaBeta"))
       ELSE
       \E type \in {IF g.bestScore <= g.alpha THEN UPPER ELSE EXACT} :
          SearchStep(Return([s EXCEPT !.tt = storeTT(@, unmade.hash,
                                                     g.bestMove, g.bestScore,
                                                     g.depth, type)],
                            g.bestScore),
                     unmade, Stored(trace, type, g, g.bestScore, FALSE))

(* quiescence lines 176-202: from the entry to the first capture *)
QuiescenceEnter ==
    /\ Running("quiescence", "enter")
    /\ \E f \in {Last(search.stack)} :
       IF search.info.stop
       THEN SearchStep(Return(search, 0), board, Quiet(trace))
       ELSE
       \E s \in {[search EXCEPT !.info.nodes = @ + 1]},
          standPat \in {evaluate(board, search.garbage)} :
       IF standPat >= f.beta
       THEN SearchStep(Return(s, f.beta), board, Quiet(Visited(trace, s, FALSE)))
       ELSE
       \E g \in {[f EXCEPT !.alpha = Max(@, standPat)]} :
       \E moves \in stdSort(generateCaptures(board), board, NoEntry, FALSE) :
       IF moves = <<>>
       THEN SearchStep(Return(s, g.alpha), board, Quiet(Visited(trace, s, FALSE)))
       ELSE SearchStep(Call(s, [g EXCEPT !.pc = "wait", !.moves = moves],
                            NewFrame("quiescence", 0, -g.beta, -g.alpha)),
                       makeMove(board, moves[1]), Made(Visited(trace, s, FALSE), "quiescence"))

(* A quiescence that tests the stop flag before it takes the move back *)
QuiescenceAfterChildStopFirst ==
    /\ Running("quiescence", "wait")
    /\ \E f \in {Last(search.stack)}, score \in {-search.ret} :
       IF search.info.stop
       THEN SearchStep(Return(search, 0), board, Quiet(trace))
       ELSE
       \E unmade \in {unmakeMove(board, f.moves[f.searchedMoves + 1])} :
       IF score >= f.beta
       THEN SearchStep(Return(search, f.beta), unmade, Quiet(trace))
       ELSE
       \E g \in {[f EXCEPT !.searchedMoves = @ + 1,
                           !.alpha = Max(@, score)]} :
       IF g.searchedMoves < Len(g.moves)
       THEN SearchStep(Call(search, g,
                            NewFrame("quiescence", 0, -g.beta, -g.alpha)),
                       makeMove(unmade, g.moves[g.searchedMoves + 1]),
                       Made(trace, "quiescence"))
       ELSE SearchStep(Return(search, g.alpha), unmade, Quiet(trace))

(* quiescence lines 203-216: a child has returned *)
QuiescenceAfterChild ==
    /\ Running("quiescence", "wait")
    /\ \E f \in {Last(search.stack)}, score \in {-search.ret} :
       \E unmade \in {unmakeMove(board, f.moves[f.searchedMoves + 1])} :
       IF search.info.stop
       THEN SearchStep(Return(search, 0), unmade, Quiet(trace))
       ELSE IF score >= f.beta
       THEN SearchStep(Return(search, f.beta), unmade, Quiet(trace))
       ELSE
       \E g \in {[f EXCEPT !.searchedMoves = @ + 1,
                           !.alpha = Max(@, score)]} :
       IF g.searchedMoves < Len(g.moves)
       THEN SearchStep(Call(search, g,
                            NewFrame("quiescence", 0, -g.beta, -g.alpha)),
                       makeMove(unmade, g.moves[g.searchedMoves + 1]),
                       Made(trace, "quiescence"))
       ELSE SearchStep(Return(search, g.alpha), unmade, Quiet(trace))

(* The two squares of the move, whatever the move *)
toStringOfSquares(m) == squareToString(MoveFrom(m)) \o squareToString(MoveTo(m))

(* MoveUtils::toString, pieces being "nbrq" *)
toString(m) ==
    IF m = 0 THEN <<"0", "0", "0", "0">>
    ELSE squareToString(MoveFrom(m)) \o squareToString(MoveTo(m)) \o
         (IF isPromotion(m) /\ promotionType(m) \in KNIGHT..QUEEN
          THEN <<(<<"n", "b", "r", "q">>)[promotionType(m) - KNIGHT + 1]>>
          ELSE <<>>)

(* The switch of parseMove on the fifth character *)
PromotionLetter(c) ==
    IF c = "q" THEN QUEEN
    ELSE IF c = "r" THEN ROOK
    ELSE IF c = "b" THEN BISHOP
    ELSE IF c = "n" THEN KNIGHT
    ELSE NO_PIECE_TYPE

(* A loop that returns the first move between the two squares *)
RECURSIVE ParseLoopOfSquares(_, _, _, _, _)
ParseLoopOfSquares(moves, i, from, to, str) ==
    IF i > Len(moves) THEN 0
    ELSE IF MoveFrom(moves[i]) = from /\ MoveTo(moves[i]) = to THEN moves[i]
    ELSE ParseLoopOfSquares(moves, i + 1, from, to, str)

(* uci.cpp 279-297: the first legal move between the two squares, of the   *)
(* promotion type named by the fifth character if it is a promotion        *)
RECURSIVE ParseLoop(_, _, _, _, _)
ParseLoop(moves, i, from, to, str) ==
    IF i > Len(moves) THEN 0
    ELSE IF /\ MoveFrom(moves[i]) = from
            /\ MoveTo(moves[i]) = to
            /\ IF isPromotion(moves[i]) /\ Len(str) > 4
               THEN promotionType(moves[i]) = PromotionLetter(str[5])
               ELSE ~isPromotion(moves[i])
    THEN moves[i]
    ELSE ParseLoop(moves, i + 1, from, to, str)

(* UCI::parseMove on the board whose legal moves are moves: str[0] - 'a',  *)
(* str[1] - '1', str[2] - 'a', str[3] - '1'                                *)
parseMoveAmong(moves, str) ==
    IF Len(str) < 4 THEN 0
    ELSE ParseLoop(moves, 1,
                   makeSquare(Ascii[str[1]] - 97, Ascii[str[2]] - 49),
                   makeSquare(Ascii[str[3]] - 97, Ascii[str[4]] - 49), str)

parseMove(b, str) == parseMoveAmong(generateLegalMoves(b), str)

(* UCI::printBestMove: the line written to the output *)
printBestMove(m) == <<"b", "e", "s", "t", "m", "o", "v", "e", " ">> \o toString(m)

(* The worker of handleGo prints the move think has returned *)
PrintBestMove ==
    /\ search.pc = "done"
    /\ SearchStep([search EXCEPT !.pc = "printed",
                                 !.printed = printBestMove(search.result)],
                  board, Quiet(trace))

(* Search::stopSearch, from the thread that reads the commands *)
StopSearch ==
    /\ search.stops
    /\ search.pc \in {"idle", "loop", "run"}
    /\ ~search.info.stop
    /\ SearchStep([search EXCEPT !.info.stop = TRUE], board,
                  Quiet(StopNoted(trace, search)))

(* The time limit of a search that has one runs out *)
Tick ==
    /\ search.pc \in {"loop", "run"}
    /\ search.timeLimit # 0
    /\ ~search.expired
    /\ SearchStep([search EXCEPT !.expired = TRUE], board, Quiet(trace))

SearchNext ==
    \/ ThinkStart
    \/ ThinkLoop
    \/ ThinkAfter
    \/ AlphaBetaEnter
    \/ AlphaBetaAfterChild
    \/ QuiescenceEnter
    \/ QuiescenceAfterChild
    \/ StopSearch
    \/ Tick
    \/ PrintBestMove

SearchSpec == SearchInit /\ [][SearchNext]_vars

(* A search that nothing stops but its clock *)
PollNext ==
    \/ ThinkStart
    \/ ThinkLoop
    \/ ThinkAfter
    \/ AlphaBetaEnter
    \/ AlphaBetaAfterChild
    \/ QuiescenceEnter
    \/ QuiescenceAfterChild
    \/ Tick
    \/ PrintBestMove

PollSpec == SearchInitFrom(PollSearches) /\ [][PollNext]_vars

(* The searches compared with the plain algorithms *)
NegamaxSearches ==
    [fen : SEARCH_FENS \cup MATE_FENS, depth : 1..MaxDepth,
     limits : {[timeLimit |-> 1000, infinite |-> FALSE]},
     garbage : EVAL_SCORES, stops : {FALSE}]

NegamaxSpec == SearchInitFrom(NegamaxSearches) /\ [][PollNext]_vars

(* The searches of a root that is a draw by the fifty-move rule, and of a  *)
(* root searched twice by the same Search object: handleGo creates the     *)
(* Search only if there is none, so a second go finds the table as the     *)
(* first one left it.                                                      *)

(* 7k/8/8/8/8/8/P7/K7 w - - 100 60 *)
FEN_KP_FIFTY ==
    <<"7", "k", "/", "8", "/", "8", "/", "8", "/", "8", "/", "8", "/", "P",
      "7", "/", "K", "7", " ", "w", " ", "-", " ", "-", " ", "1", "0", "0",
      " ", "6", "0">>

RootSearches ==
    [fen : {FEN_KP, FEN_KP_FIFTY, FEN_GUARD}, depth : 1..MaxDepth,
     limits : {[timeLimit |-> 1000, infinite |-> FALSE]},
     garbage : EVAL_SCORES, stops : {FALSE}]

(* UCI::handleGo once the first search has printed its move: think is      *)
(* called again on the Search that exists                                  *)
GoAgain ==
    /\ search.pc = "printed"
    /\ lastOp.op = "fen"
    /\ search' = [search EXCEPT !.pc = "idle"]
    /\ lastOp' = [op |-> "go", flags |-> 0]
    /\ trace' = [Quiet(trace) EXCEPT !.iterations = <<>>]
    /\ UNCHANGED <<board, snapshots, rep, uci>>

RootNext == PollNext \/ GoAgain

RootSpec == SearchInitFrom(RootSearches) /\ [][RootNext]_vars

----------------------------------------------------------------------------
(* A game on one Search object: go on a position, then position and go on  *)
(* the position one move later.  The table keeps the entries of the first  *)
(* search: only the constructor calls clearTT.                             *)

(* White to move; after b5-b6 black has the two pawn moves only, and after *)
(* either of them white mates by b6-b7                                     *)
FEN_MATE_ROOT ==
    <<"k", "7", "/", "P", "6", "p", "/", "K", "7", "/", "1", "P", "6", "/",
      "8", "/", "8", "/", "8", "/", "8", " ", "w", " ", "-", " ", "-", " ",
      "0", " ", "1">>

(* The position after b5-b6 *)
FEN_MATE_REPLY ==
    <<"k", "7", "/", "P", "6", "p", "/", "K", "P", "6", "/", "8", "/", "8",
      "/", "8", "/", "8", "/", "8", " ", "b", " ", "-", " ", "-", " ", "0",
      " ", "1">>

(* The depth of the first search: the mate three plies below the root is   *)
(* found by a call with one ply left                                       *)
MateDepth == 4

MateSearches ==
    [fen : {FEN_MATE_ROOT}, depth : {MateDepth},
     limits : {[timeLimit |-> 0, infinite |-> FALSE]},
     garbage : EVAL_SCORES, stops : {FALSE}]

(* UCI::handlePosition and UCI::handleGo once the first search has printed *)
(* its move: setFromFEN on the Board the Search refers to, and think with  *)
(* depth 1 or 2 on the Search that exists                                  *)
PositionAndGo ==
    /\ search.pc = "printed"
    /\ lastOp.op = "fen"
    /\ \E depth \in 1..MaxDepth :
          search' = [search EXCEPT !.pc = "idle", !.depth = depth]
    /\ \E root \in {setFromFEN(board, FEN_MATE_REPLY)} :
          /\ board' = root
          /\ snapshots' = <<root>>
    /\ lastOp' = [op |-> "go", flags |-> 0]
    /\ trace' = [Quiet(trace) EXCEPT !.iterations = <<>>]
    /\ UNCHANGED <<rep, uci>>

MateNext ==
    \/ ThinkStart
    \/ ThinkLoop
    \/ ThinkAfter
    \/ AlphaBetaEnter
    \/ AlphaBetaAfterChild
    \/ QuiescenceEnter
    \/ QuiescenceAfterChild
    \/ PrintBestMove
    \/ PositionAndGo

MateSpec == SearchInitFrom(MateSearches) /\ [][MateNext]_vars

----------------------------------------------------------------------------
(* Search::orderMoves on the legal moves of a position, with the entry the *)
(* table holds for its hash                                                *)

(* A pawn that can take a rook or a knight; the king can take a pawn       *)
FEN_ORDER_PAWN ==
    <<"4", "k", "3", "/", "8", "/", "8", "/", "3", "r", "1", "n", "2",
      "/", "4", "P", "3", "/", "8", "/", "4", "p", "3", "/", "4", "K",
      "3", " ", "w", " ", "-", " ", "-", " ", "0", " ", "1">>

(* A knight that can take a queen, a rook or a pawn, and a pawn that can   *)
(* take the queen                                                          *)
FEN_ORDER_KNIGHT ==
    <<"4", "k", "3", "/", "8", "/", "2", "p", "5", "/", "1", "q", "3",
      "r", "2", "/", "P", "2", "N", "4", "/", "8", "/", "8", "/", "4",
      "K", "3", " ", "w", " ", "-", " ", "-", " ", "0", " ", "1">>

(* A pawn that can take a pawn en passant or a knight                      *)
FEN_ORDER_EP ==
    <<"4", "k", "3", "/", "8", "/", "5", "n", "2", "/", "3", "p", "P",
      "3", "/", "8", "/", "8", "/", "8", "/", "4", "K", "3", " ", "w",
      " ", "-", " ", "d", "6", " ", "0", " ", "1">>

(* A pawn that promotes by a push or by taking a knight                    *)
FEN_ORDER_PROMO ==
    <<"1", "n", "2", "k", "3", "/", "P", "7", "/", "8", "/", "8", "/",
      "8", "/", "8", "/", "8", "/", "4", "K", "3", " ", "w", " ", "-",
      " ", "-", " ", "0", " ", "1">>

(* Black to move: a knight that can take a pawn or a rook                  *)
FEN_ORDER_BLACK ==
    <<"4", "k", "3", "/", "8", "/", "3", "n", "4", "/", "8", "/", "2",
      "P", "1", "R", "3", "/", "8", "/", "8", "/", "4", "K", "3", " ",
      "b", " ", "-", " ", "-", " ", "0", " ", "1">>

(* A rook that can take a bishop and a pawn that can take a pawn *)
FEN_ORDER_ROOK ==
    <<"4", "k", "3", "/", "8", "/", "8", "/", "8", "/", "2", "p", "5", "/",
      "1", "P", "6", "/", "b", "7", "/", "R", "3", "K", "3", " ", "w", " ",
      "-", " ", "-", " ", "0", " ", "1">>

ORDER_FENS ==
    {FEN_ORDER_PAWN, FEN_ORDER_KNIGHT, FEN_ORDER_EP, FEN_ORDER_PROMO,
     FEN_ORDER_BLACK, FEN_ORDER_ROOK, FEN_GUARD}

(* The best moves the entry of a position can hold: a legal move of the    *)
(* position, or 0 when no move of the node improved on -MATE_SCORE         *)
TableMoves(b) ==
    {0} \cup UNION {{legal[i] : i \in 1..Len(legal)} :
                       legal \in {generateLegalMoves(b)}}

(* alphaBeta lines 103-121, before the loop: the legal moves are generated *)
(* and ordered; no entry for the hash, or an entry with one of its moves   *)
OrderInit ==
    /\ lastOp = [op |-> "fen", flags |-> 0]
    /\ snapshots = <<>>
    /\ rep = NoCall
    /\ trace = NoTrace
    /\ uci = NoUCI
    /\ \E fen \in ORDER_FENS :
          \E root \in {setFromFEN(FreshBoard, fen)} :
             /\ board = root
             /\ \/ search = [pc |-> "order", tt |-> <<>>, moves |-> <<>>]
                \/ \E best \in TableMoves(root) :
                      search = [pc |-> "order",
                                tt |-> storeTT(<<>>, root.hash, best, 0, 1,
                                               UPPER),
                                moves |-> <<>>]

OrderMoves ==
    /\ search.pc = "order"
    /\ \E legal \in {generateLegalMoves(board)} :
          \E moves \in orderMoves(legal, board, search.tt) :
             search' = [search EXCEPT !.pc = "ordered", !.moves = moves]
    /\ UNCHANGED <<board, lastOp, snapshots, rep, trace, uci>>

OrderNext == OrderMoves

OrderSpec == OrderInit /\ [][OrderNext]_vars


----------------------------------------------------------------------------
(* think without a time limit and without a stopSearch, on positions with  *)
(* chains of captures                                                      *)

(* Pawns that can take and take back on d5 *)
FEN_CAPTURES ==
    <<"4", "k", "3", "/", "8", "/", "2", "p", "1", "p", "3", "/", "3", "p",
      "4", "/", "2", "P", "1", "P", "3", "/", "8", "/", "8", "/", "4", "K",
      "3", " ", "w", " ", "-", " ", "-", " ", "0", " ", "1">>

QuiesceSearches ==
    [fen : {FEN_GUARD, FEN_CAPTURES}, depth : 1..MaxDepth,
     limits : {[timeLimit |-> 0, infinite |-> FALSE]},
     garbage : EVAL_SCORES, stops : {FALSE}]

QuiesceNext ==
    \/ ThinkStart
    \/ ThinkLoop
    \/ ThinkAfter
    \/ AlphaBetaEnter
    \/ AlphaBetaAfterChild
    \/ QuiescenceEnter
    \/ QuiescenceAfterChild
    \/ PrintBestMove

QuiesceSpec == SearchInitFrom(QuiesceSearches) /\ [][QuiesceNext]_vars

----------------------------------------------------------------------------
(* uci.h, uci.cpp: the command thread of UCI::loop and the worker thread   *)
(* that handleGo starts.  Of the search the worker runs only the stop flag *)
(* is kept: think clears it, tests it, and returns once it has seen it     *)
(* set; a search with a depth or a time limit can also return by itself,   *)
(* a search to the default depth without a time limit does not.            *)

(* int depth = 64 of handleGo *)
DEFAULT_DEPTH == 64

MaxGo == 2

(* go infinite; go; go depth 2; go movetime 1000 *)
GO_ARGS ==
    {[depth |-> DEFAULT_DEPTH, timeLimit |-> 0, infinite |-> TRUE],
     [depth |-> DEFAULT_DEPTH, timeLimit |-> 0, infinite |-> FALSE],
     [depth |-> MaxDepth, timeLimit |-> 0, infinite |-> FALSE],
     [depth |-> DEFAULT_DEPTH, timeLimit |-> 1000, infinite |-> FALSE]}

NoGo == [depth |-> 0, timeLimit |-> 0, infinite |-> FALSE]

EndsByItself(args) ==
    args.depth < DEFAULT_DEPTH \/ (args.timeLimit # 0 /\ ~args.infinite)

(* UCI::UCI(): search(nullptr), board.reset(), no thread *)
UCIInit ==
    /\ board = reset(FreshBoard)
    /\ lastOp = [op |-> "new", flags |-> 0]
    /\ snapshots = <<>>
    /\ rep = NoCall
    /\ search = NoSearch
    /\ trace = NoTrace
    /\ uci = [cmd |-> "loop", go |-> NoGo, search |-> "null", stop |-> FALSE,
              joinable |-> FALSE, worker |-> "none", args |-> NoGo,
              freed |-> FALSE, gos |-> 0, bestmoves |-> 0,
              emitted |-> FALSE, stopped |-> FALSE, raced |-> {},
              workers |-> 0]

UCIStep(u, b) ==
    /\ uci' = u
    /\ board' = b
    /\ UNCHANGED <<lastOp, snapshots, rep, search, trace>>

(* The command thread reads a line in UCI::loop; a crashed process reads   *)
(* nothing                                                                 *)
Reading == uci.cmd = "loop" /\ uci.worker # "fault"

(* A join that returns at once *)
JoinedAtOnce == uci.worker # "fault"

(* searchThread.join() returns: there is no thread to wait for, or its     *)
(* function has returned                                                   *)
Joined == uci.worker # "fault" /\ (~uci.joinable \/ uci.worker = "end")

(* A search started by go is in flight: think has not returned *)
InFlight == uci.worker \in {"start", "call", "search"}

(* What a handler accesses of the state the search works on, noted when a  *)
(* search is in flight                                                     *)
Raced(accessed) == IF InFlight THEN uci.raced \cup accessed ELSE uci.raced

(* handleGo lines 101-104: the line is read and the thread joined *)
HandleGo ==
    /\ Reading
    /\ uci.gos < MaxGo
    /\ \E args \in GO_ARGS :
          UCIStep([uci EXCEPT !.cmd = "go", !.go = args, !.gos = @ + 1],
                  board)

(* handleGo lines 106-215 once the join has returned: the limits are       *)
(* parsed and the worker thread is started                                 *)
StartSearch ==
    /\ uci.cmd = "go"
    /\ Joined
    /\ UCIStep([uci EXCEPT !.cmd = "loop", !.joinable = TRUE,
                           !.worker = "start", !.args = uci.go,
                           !.freed = FALSE, !.emitted = FALSE,
                           !.stopped = FALSE, !.raced = {},
                           !.workers = @ + 1],
               board)

(* handleStop lines 218-220: stopSearch on the Search object, if the       *)
(* pointer is not null                                                     *)
HandleStop ==
    /\ Reading
    /\ UCIStep([uci EXCEPT !.cmd = "stop",
                           !.stop = IF uci.search = "object" THEN TRUE ELSE @,
                           !.stopped = @ \/ InFlight],
               board)

(* handleStop lines 221-223: the join returns *)
StopJoined ==
    /\ uci.cmd = "stop"
    /\ Joined
    /\ UCIStep([uci EXCEPT !.cmd = "loop", !.joinable = FALSE,
                           !.worker = "none"],
               board)

(* handleQuit: handleStop, up to its join *)
HandleQuit ==
    /\ Reading
    /\ UCIStep([uci EXCEPT !.cmd = "quit",
                           !.stop = IF uci.search = "object" THEN TRUE ELSE @,
                           !.stopped = @ \/ InFlight],
               board)

(* The join of handleQuit returns, the loop breaks, ~UCI deletes search *)
QuitJoined ==
    /\ uci.cmd = "quit"
    /\ Joined
    /\ UCIStep([uci EXCEPT !.cmd = "exit", !.joinable = FALSE,
                           !.worker = "none", !.search = "null",
                           !.stop = FALSE],
               board)

(* handleUCINewGame: the board is reset and the Search object deleted,     *)
(* also when the worker is inside think on it                              *)
HandleUCINewGame ==
    /\ Reading
    /\ UCIStep([uci EXCEPT !.search = "null", !.stop = FALSE,
                           !.freed = @ \/ (uci.search = "object"
                                            /\ uci.worker = "search"),
                           !.raced = Raced(IF uci.search = "object"
                                           THEN {"board", "search", "tt"}
                                           ELSE {"board"})],
               reset(board))

(* handlePosition with startpos or fen and no moves *)
HandlePosition ==
    /\ Reading
    /\ \E pos \in Positions :
          UCIStep([uci EXCEPT !.raced = Raced({"board"})], pos)

(* The d command of UCI::loop: board.toFEN() is printed *)
HandleD ==
    /\ Reading
    /\ UCIStep([uci EXCEPT !.raced = Raced({"board"})], board)

(* The worker, lines 210-212: if (!search) search = new Search(board) *)
WorkerCreate ==
    /\ uci.worker = "start"
    /\ UCIStep(IF uci.search = "null"
               THEN [uci EXCEPT !.worker = "call", !.search = "object",
                                !.stop = FALSE]
               ELSE [uci EXCEPT !.worker = "call"],
               board)

(* The worker, line 213 and think lines 15-23: think is called through the *)
(* pointer, which a ucinewgame may have set to null, and clears stop       *)
WorkerThink ==
    /\ uci.worker = "call"
    /\ UCIStep(IF uci.search = "null"
               THEN [uci EXCEPT !.worker = "fault"]
               ELSE [uci EXCEPT !.worker = "search", !.stop = FALSE],
               board)

(* What a test of info.stop reads: the flag, or whatever the memory of a   *)
(* deleted object holds                                                    *)
StopRead ==
    IF uci.freed THEN {"true", "false", "fault"}
    ELSE IF uci.stop THEN {"true"}
    ELSE {"false"}

(* think returns: it has seen stop set, or the search has reached its      *)
(* depth or its time limit                                                 *)
WorkerReturn ==
    /\ uci.worker = "search"
    /\ \E seen \in StopRead :
          /\ seen = "false" => EndsByItself(uci.args)
          /\ UCIStep([uci EXCEPT !.worker = IF seen = "fault" THEN "fault"
                                            ELSE "print"],
                     board)

(* printBestMove, and the thread function returns *)
WorkerPrint ==
    /\ uci.worker = "print"
    /\ UCIStep([uci EXCEPT !.worker = "end", !.bestmoves = @ + 1,
                           !.emitted = TRUE, !.workers = @ - 1],
               board)

UCINext ==
    \/ HandleGo
    \/ StartSearch
    \/ HandleStop
    \/ StopJoined
    \/ HandleQuit
    \/ QuitJoined
    \/ HandleUCINewGame
    \/ HandlePosition
    \/ HandleD
    \/ WorkerCreate
    \/ WorkerThink
    \/ WorkerReturn
    \/ WorkerPrint

UCISpec == UCIInit /\ [][UCINext]_vars

----------------------------------------------------------------------------
(* search.cpp 291-314: the transposition table as the array it is, driven  *)
(* by clearTT, storeTT and probeTT calls.  The slots are the ones the      *)
(* hashes of TT_HASHES fall in; trace records, for each slot, the last     *)
(* store made into it since the last clearTT, and the last probe.          *)

TT_SIZE == 1048576

(* Hashes two to a slot, among them zero *)
TT_HASHES == {0, 1, TT_SIZE, TT_SIZE + 1}

index(hash) == hash % TT_SIZE

TT_SLOTS == {index(h) : h \in TT_HASHES}

(* TTEntry{0, 0, 0, 0, TTEntry::EXACT} *)
ClearedEntry ==
    [hash |-> 0, bestMove |-> 0, score |-> 0, depth |-> 0, type |-> EXACT]

clearTT(tt) == [i \in DOMAIN tt |-> ClearedEntry]

(* The TTEntry* returned: null, or the entry pointed to *)
probeSlot(tt, hash) ==
    IF tt[index(hash)].hash = hash
    THEN [found |-> TRUE, entry |-> tt[index(hash)]]
    ELSE [found |-> FALSE, entry |-> ClearedEntry]

storeSlot(tt, hash, m, score, depth, type) ==
    [tt EXCEPT ![index(hash)] =
        [hash |-> hash, bestMove |-> m, score |-> score, depth |-> depth,
         type |-> type]]

NotStored == [made |-> FALSE, entry |-> ClearedEntry]

NotProbed == [made |-> FALSE, hash |-> 0, found |-> FALSE, entry |-> ClearedEntry]

(* The arguments of the storeTT calls: moves, scores, depths and bounds,   *)
(* the values of the cleared entry among them                              *)
TT_STORES ==
    [hash : TT_HASHES, bestMove : {0, 796}, score : {0, 50}, depth : {0, 3},
     type : {EXACT, LOWER}]

(* Search::Search: clearTT() *)
TTInit ==
    /\ board = reset(FreshBoard)
    /\ lastOp = [op |-> "new", flags |-> 0]
    /\ snapshots = <<>>
    /\ rep = NoCall
    /\ search = [pc |-> "tt", tt |-> clearTT([i \in TT_SLOTS |-> ClearedEntry])]
    /\ trace = [stores |-> [i \in TT_SLOTS |-> NotStored], probe |-> NotProbed]
    /\ uci = NoUCI

ClearTT ==
    /\ search.pc = "tt"
    /\ search' = [search EXCEPT !.tt = clearTT(@)]
    /\ trace' = [stores |-> [i \in TT_SLOTS |-> NotStored], probe |-> NotProbed]
    /\ UNCHANGED <<board, lastOp, snapshots, rep, uci>>

StoreTT ==
    /\ search.pc = "tt"
    /\ \E s \in TT_STORES :
          /\ search' = [search EXCEPT !.tt = storeSlot(@, s.hash, s.bestMove,
                                                       s.score, s.depth, s.type)]
          /\ trace' = [stores |-> [trace.stores EXCEPT ![index(s.hash)] =
                                      [made |-> TRUE, entry |-> s]],
                       probe |-> NotProbed]
    /\ UNCHANGED <<board, lastOp, snapshots, rep, uci>>

ProbeTT ==
    /\ search.pc = "tt"
    /\ \E hash \in TT_HASHES :
          \E got \in {probeSlot(search.tt, hash)} :
             trace' = [trace EXCEPT !.probe = [made |-> TRUE, hash |-> hash,
                                               found |-> got.found,
                                               entry |-> got.entry]]
    /\ UNCHANGED <<board, lastOp, snapshots, rep, search, uci>>

TTNext == ClearTT \/ StoreTT \/ ProbeTT

TTSpec == TTInit /\ [][TTNext]_vars

----------------------------------------------------------------------------
-----------------------------------------------------------------------------
(* attacks.h, attacks.cpp: the slider tables.  A bitboard is the set of    *)
(* the squares whose bits are set.                                         *)

ROOK_DIRECTIONS == <<-8, -1, 1, 8>>
BISHOP_DIRECTIONS == <<-9, -7, 7, 9>>
OCCUPANCY_INDEXES == 64
PATTERN_BITS == 6

isValidSquare(sq) == sq >= 0 /\ sq < 64

testBit(bb, sq) == sq \in bb

setBit(bb, sq) == bb \cup {sq}

(* bit i of a table index, as occupancyIndex & (1 << i) *)
IndexBit(occupancyIndex, i) == (occupancyIndex \div (2 ^ i)) % 2 = 1

(* the occupancy pattern Attacks::init builds for a table index *)
PatternOf(sq, occupancyIndex) ==
    {(sq + i * 8 + i) % 64 : i \in {j \in 0..(PATTERN_BITS - 1) : IndexBit(occupancyIndex, j)}}

RECURSIVE RookWalk(_, _, _, _)
RookWalk(sq, dir, i, occupancy) ==
    IF i >= 8 \/ ~isValidSquare(sq + dir * i) THEN {}
    ELSE IF (dir = 1 \/ dir = -1) /\ rankOf(sq + dir * i) # rankOf(sq) THEN {}
    ELSE IF testBit(occupancy, sq + dir * i) THEN {sq + dir * i}
    ELSE setBit(RookWalk(sq, dir, i + 1, occupancy), sq + dir * i)

RECURSIVE BishopWalk(_, _, _, _)
BishopWalk(sq, dir, i, occupancy) ==
    IF i >= 8 \/ ~isValidSquare(sq + dir * i) THEN {}
    ELSE IF Abs(fileOf(sq + dir * i) - fileOf(sq)) # i
            \/ Abs(rankOf(sq + dir * i) - rankOf(sq)) # i THEN {}
    ELSE IF testBit(occupancy, sq + dir * i) THEN {sq + dir * i}
    ELSE setBit(BishopWalk(sq, dir, i + 1, occupancy), sq + dir * i)

RookTableEntry(sq, occupancyIndex) ==
    UNION {RookWalk(sq, ROOK_DIRECTIONS[d], 1, PatternOf(sq, occupancyIndex)) : d \in 1..4}

BishopTableEntry(sq, occupancyIndex) ==
    UNION {BishopWalk(sq, BISHOP_DIRECTIONS[d], 1, PatternOf(sq, occupancyIndex)) : d \in 1..4}

(* occupancy % 64: the bits of a1..f1 *)
RECURSIVE OccupancyModulo(_, _)
OccupancyModulo(occupancy, i) ==
    IF i >= PATTERN_BITS THEN 0
    ELSE (IF i \in occupancy THEN 2 ^ i ELSE 0) + OccupancyModulo(occupancy, i + 1)

getRookAttacks(tables, sq, occupancy) == tables.rookAttacks[sq][OccupancyModulo(occupancy, 0)]

getBishopAttacks(tables, sq, occupancy) == tables.bishopAttacks[sq][OccupancyModulo(occupancy, 0)]

getQueenAttacks(tables, sq, occupancy) ==
    getRookAttacks(tables, sq, occupancy) \cup getBishopAttacks(tables, sq, occupancy)

(* The rows of the tables that are kept, and the occupancies asked for.    *)
ATTACK_SQUARES == {0, 27, 36, 63}
OCCUPIED_SQUARES == {1, 3, 8, 9, 35, 45}

ZeroTables ==
    [rookAttacks |-> [sq \in ATTACK_SQUARES |-> [i \in 0..(OCCUPANCY_INDEXES - 1) |-> {}]],
     bishopAttacks |-> [sq \in ATTACK_SQUARES |-> [i \in 0..(OCCUPANCY_INDEXES - 1) |-> {}]]]

NotAsked == [piece |-> "none", attacks |-> {}]

SliderInit ==
    /\ board = reset(FreshBoard)
    /\ lastOp = [op |-> "new", flags |-> 0]
    /\ snapshots = <<>>
    /\ rep = NoCall
    /\ search = [pc |-> "attacks", initialised |-> FALSE, tables |-> ZeroTables]
    /\ \E sq \in ATTACK_SQUARES : \E occupancy \in SUBSET OCCUPIED_SQUARES :
          trace = [sq |-> sq, occupancy |-> occupancy, asked |-> NotAsked]
    /\ uci = NoUCI

AttacksInitialise ==
    /\ search.pc = "attacks"
    /\ ~search.initialised
    /\ search' = [search EXCEPT
          !.initialised = TRUE,
          !.tables = [rookAttacks |-> [sq \in ATTACK_SQUARES |->
                                         [i \in 0..(OCCUPANCY_INDEXES - 1) |-> RookTableEntry(sq, i)]],
                      bishopAttacks |-> [sq \in ATTACK_SQUARES |->
                                         [i \in 0..(OCCUPANCY_INDEXES - 1) |-> BishopTableEntry(sq, i)]]]]
    /\ trace' = [trace EXCEPT !.asked = NotAsked]
    /\ UNCHANGED <<board, lastOp, snapshots, rep, uci>>

GetRookAttacks ==
    /\ search.pc = "attacks"
    /\ trace' = [trace EXCEPT !.asked =
                    [piece |-> "rook",
                     attacks |-> getRookAttacks(search.tables, trace.sq, trace.occupancy)]]
    /\ UNCHANGED <<board, lastOp, snapshots, rep, search, uci>>

GetBishopAttacks ==
    /\ search.pc = "attacks"
    /\ trace' = [trace EXCEPT !.asked =
                    [piece |-> "bishop",
                     attacks |-> getBishopAttacks(search.tables, trace.sq, trace.occupancy)]]
    /\ UNCHANGED <<board, lastOp, snapshots, rep, search, uci>>

GetQueenAttacks ==
    /\ search.pc = "attacks"
    /\ trace' = [trace EXCEPT !.asked =
                    [piece |-> "queen",
                     attacks |-> getQueenAttacks(search.tables, trace.sq, trace.occupancy)]]
    /\ UNCHANGED <<board, lastOp, snapshots, rep, search, uci>>

SliderNext == AttacksInitialise \/ GetRookAttacks \/ GetBishopAttacks \/ GetQueenAttacks

SliderSpec == SliderInit /\ [][SliderNext]_vars

(* The walk of the contract: from sq one step of (df, dr) at a time, up to *)
(* the edge of the board, the first occupied square included.              *)
RECURSIVE Ray(_, _, _, _, _)
Ray(f, r, df, dr, occupancy) ==
    IF f + df \notin 0..7 \/ r + dr \notin 0..7 THEN {}
    ELSE IF makeSquare(f + df, r + dr) \in occupancy THEN {makeSquare(f + df, r + dr)}
    ELSE {makeSquare(f + df, r + dr)} \cup Ray(f + df, r + dr, df, dr, occupancy)

Rays(sq, steps, occupancy) ==
    UNION {Ray(fileOf(sq), rankOf(sq), s[1], s[2], occupancy) : s \in steps}

ROOK_STEPS == {<<1, 0>>, <<-1, 0>>, <<0, 1>>, <<0, -1>>}
BISHOP_STEPS == {<<1, 1>>, <<1, -1>>, <<-1, 1>>, <<-1, -1>>}

-----------------------------------------------------------------------------
(* Properties of the Board under Spec *)


CAPTURE_PROMOTIONS == {MOVE_PROMOTION + MOVE_CAPTURE, MOVE_PROMOTION + MOVE_CAPTURE + 4096}

(* C1: makeMove(m) followed by unmakeMove(m) restores every field of the   *)
(* position: after each unmakeMove the board is the board recorded when    *)
(* the undo stack last had this length, i.e. just before the move was made *)
(* (squares, side to move, castling, en passant square, both counters,     *)
(* hash, undo stack and hash history).                                     *)
C1_MakeUnmakeRestores ==
    lastOp.op = "unmake" => board = Last(snapshots)

(* A capture-promotion made as the second move after a parse, taken back *)
C1_Witness ==
    /\ lastOp.op = "unmake"
    /\ lastOp.flags \in CAPTURE_PROMOTIONS
    /\ Len(board.history) = 1
    /\ board = Last(snapshots)

(* The hash recomputed from scratch: the keys of the pieces on the board,  *)
(* of the castling mask, of the en passant file and of black to move.      *)
ZobristOf(b) ==
    {zobristPieces(b.squares[s], s) : s \in {t \in 0..63 : b.squares[t] # NO_PIECE}}
    \cup {zobristCastling(b.castling)}
    \cup (IF b.epSquare # NO_SQUARE THEN {zobristEpFile(fileOf(b.epSquare))} ELSE {})
    \cup (IF b.stm = BLACK THEN {zobristSideToMove} ELSE {})

(* C2: after setFromFEN and after every makeMove and unmakeMove the hash   *)
(* kept incrementally equals the hash recomputed from scratch.             *)
C2_HashIsRecomputed == board.hash = ZobristOf(board)

(* An en passant capture has been made, after the double push that set    *)
(* the en passant square                                                   *)
C2_Witness ==
    /\ lastOp.op = "make"
    /\ lastOp.flags = MOVE_EN_PASSANT
    /\ Len(board.history) = 2
    /\ board.hash = ZobristOf(board)

(* The moves of a move list from one square to another *)
MovesFromTo(moves, from, to) ==
    SelectSeq(moves, LAMBDA m : MoveFrom(m) = from /\ MoveTo(m) = to)

(* C5: for every pawn move onto the last rank the generator emits exactly  *)
(* four moves to the target, pairwise distinct, whose promotionType values *)
(* are knight, bishop, rook and queen, and makeMove of each puts a piece   *)
(* of that type on the target.                                             *)
C5_FourPromotions ==
    \A moves \in {generateMoves(board)} :
       \A i \in 1..Len(moves) :
          \A from \in {MoveFrom(moves[i])}, to \in {MoveTo(moves[i])} :
             (typeOf(board.squares[from]) = PAWN /\ rankOf(to) \in {0, 7}) =>
                \A g \in {MovesFromTo(moves, from, to)} :
                   /\ Len(g) = 4
                   /\ \A j, k \in 1..Len(g) : j # k => g[j] # g[k]
                   /\ {promotionType(g[j]) : j \in 1..Len(g)} = {KNIGHT, BISHOP, ROOK, QUEEN}
                   /\ \A j \in 1..Len(g) :
                         typeOf(makeMove(board, g[j]).squares[to]) = promotionType(g[j])

(* C6: after makeMove of a move of generateLegalMoves the king of the side *)
(* that moved is not attacked by the opponent.                             *)
C6_LegalMoveLeavesKingSafe ==
    lastOp.op = "make" =>
        ~isAttacked(board, kingSquare(board, 1 - board.stm), board.stm)

(* A move has been made from a position where the pseudo-legal generator  *)
(* also offered a move that the legal filter removed                       *)
C6_Witness ==
    /\ lastOp.op = "make"
    /\ Len(snapshots) >= 2
    /\ \E before \in {snapshots[Len(snapshots) - 1]} :
          Len(generateLegalMoves(before)) < Len(generateMoves(before))
    /\ ~isAttacked(board, kingSquare(board, 1 - board.stm), board.stm)

----------------------------------------------------------------------------
(* Properties of isDrawByRepetition under RepSpec *)

(* The occurrences of the current hash among the entries with the same     *)
(* side to move, the current entry included                                *)
Occurrences(hashHistory) ==
    Cardinality({i \in 1..Len(hashHistory) :
                    /\ (Len(hashHistory) - i) % 2 = 0
                    /\ hashHistory[i] = hashHistory[Len(hashHistory)]})

(* C8: isDrawByRepetition returns true exactly when the current hash       *)
(* occurs at least three times among the entries with the same side to     *)
(* move, the first entry of the history included.                          *)
C8_RepetitionIffThreeOccurrences ==
    rep.called =>
        rep.result = (IF Occurrences(board.hashHistory) >= 3 THEN "true" ELSE "false")

----------------------------------------------------------------------------
(* Properties of the search under SearchSpec *)

(* C3: at the end of every completed iteration of think the move recorded  *)
(* as best is a member of generateLegalMoves of the root position, which   *)
(* the board holds again once alphaBeta has returned to think.             *)
C3_BestMoveIsRootMove ==
    (/\ search.pc \in {"loop", "done"}
     /\ trace.iterations # <<>>
     /\ generateLegalMoves(board) # <<>>)
        => \E moves \in {generateLegalMoves(board)} :
              \E i \in 1..Len(moves) :
                 moves[i] = Last(trace.iterations).bestMove

KingCount(b, c) ==
    Cardinality({s \in 0..63 : b.squares[s] = makePiece(c, KING)})

(* C7: in every position a makeMove of alphaBeta or of quiescence reaches  *)
(* there is exactly one king of each colour and the side that has just     *)
(* moved is not in check.                                                  *)
C7_SearchedPositionsLegal ==
    trace.made # "none"
        => /\ KingCount(board, WHITE) = 1
           /\ KingCount(board, BLACK) = 1
           /\ ~isInCheck(board, 1 - board.stm)

(* C9: a store of alphaBeta has bound LOWER at a beta cutoff; without a    *)
(* cutoff it has bound EXACT if the best score is greater than the alpha   *)
(* the node was entered with, and UPPER otherwise.                         *)
C9_StoredBound ==
    trace.store.made
        => trace.store.type =
              IF trace.store.cutoff THEN LOWER
              ELSE IF trace.store.bestScore > trace.store.alphaIn THEN EXACT
              ELSE UPPER

(* What think had recorded when the last completed iteration ended; before *)
(* the first one it is the move 0 and the score 0 think starts with        *)
Recorded ==
    IF trace.iterations = <<>> THEN [bestMove |-> 0, score |-> 0]
    ELSE Last(trace.iterations)

(* C10: once the stop flag has become set while iteration d is in          *)
(* progress (alphaBeta is searching depth d, or has returned and think has *)
(* not yet tested the flag), d - 1 iterations are completed and no more,   *)
(* the best move and info.score are those recorded at the end of iteration *)
(* d - 1, iteration d stays the last one started, and think returns that   *)
(* best move.                                                              *)
C10_StoppedIterationDiscarded ==
    trace.stopIn > 0
        => /\ Len(trace.iterations) = trace.stopIn - 1
           /\ search.bestMove = Recorded.bestMove
           /\ search.info.score = Recorded.score
           /\ search.info.depth = trace.stopIn
           /\ search.pc = "done" => search.result = Recorded.bestMove

(* think has returned after an external stop during the second iteration,  *)
(* and after the clock stopped the fifth: the move of the iteration before *)
C10_Witness ==
    /\ search.pc = "done"
    /\ trace.stopIn = 2
    /\ search.stops
    /\ search.result # 0

C10_WitnessTimeExpiry ==
    /\ search.pc = "done"
    /\ trace.stopIn = PollDepth
    /\ ~search.stops
    /\ search.result # 0

----------------------------------------------------------------------------
(* Properties of the front-end under UCISpec *)

(* C4: a stop command processed while a search started by go is in flight  *)
(* is not lost: while think is still searching after it, the stop flag     *)
(* think tests is set, so that the search ends and bestmove is emitted.    *)
C4_StopNeverLost ==
    (uci.stopped /\ uci.worker = "search" /\ ~uci.freed) => uci.stop

(* C11: while a search is in flight no command handler reads or writes the *)
(* Board, destroys or replaces the Search object or touches the            *)
(* transposition table.                                                    *)
C11_NoAccessDuringSearch == uci.raced = {}

----------------------------------------------------------------------------
(* Properties of setFromFEN under FenSpec *)

(* C12: setFromFEN of a malformed FEN leaves the previous position         *)
(* unchanged: mailbox, side to move, castling mask, en passant square,     *)
(* counters, hash, undo stack and hash history.                            *)
C12_MalformedFENRejected ==
    lastOp.op = "malformed" => board = lastOp.before

----------------------------------------------------------------------------
(* Properties of the bitboards under Spec *)

(* C13: after setFromFEN and after every makeMove and unmakeMove, each     *)
(* per-piece bitboard has bit s set exactly when the mailbox square s      *)
(* holds that piece.                                                       *)
C13_BitboardsMirrorMailbox ==
    lastOp.op \in {"fen", "make", "unmake"} =>
        board.bitboards = BitsOf(board.squares)

(* The squares whose use by a move ends castling rights, with the rights *)
CastlingSquares ==
    {<<E1, WHITE_KINGSIDE + WHITE_QUEENSIDE>>, <<A1, WHITE_QUEENSIDE>>,
     <<H1, WHITE_KINGSIDE>>, <<E8, BLACK_KINGSIDE + BLACK_QUEENSIDE>>,
     <<A8, BLACK_QUEENSIDE>>, <<H8, BLACK_KINGSIDE>>}

(* C14: after every makeMove the castling mask is a subset of the mask     *)
(* before it, a move from or to E1 has cleared both white rights, A1 the   *)
(* white queenside right, H1 the white kingside right (E8, A8, H8 for      *)
(* black), and along any sequence of moves made no bit that was clear is   *)
(* set again.                                                              *)
C14_CastlingRightsOnlyCleared ==
    /\ \A i \in 1..Len(snapshots) : \A j \in i..Len(snapshots) :
          BitAnd(snapshots[j].castling, snapshots[i].castling)
              = snapshots[j].castling
    /\ lastOp.op = "make" =>
          \A rule \in CastlingSquares :
             \E m \in {Last(board.history).move} :
                (MoveFrom(m) = rule[1] \/ MoveTo(m) = rule[1])
                    => BitAnd(board.castling, rule[2]) = 0

(* The rook takes the rook, a1 to a8, with all four rights held: both      *)
(* queenside rights are gone and both kingside rights remain.              *)
C14_Witness ==
    /\ lastOp.op = "make"
    /\ MoveFrom(Last(board.history).move) = A1
    /\ MoveTo(Last(board.history).move) = A8
    /\ Last(board.history).castling = 15
    /\ board.castling = WHITE_KINGSIDE + BLACK_KINGSIDE

----------------------------------------------------------------------------
(* Properties of castle generation under GenSpec *)

(* The moves of a move list *)
MoveSet(moves) == {moves[i] : i \in 1..Len(moves)}

(* The king is not in check, and neither the square it crosses nor the     *)
(* square it lands on is attacked by the opponent                          *)
CastleSafe(b, m) ==
    /\ ~isInCheck(b, b.stm)
    /\ ~isAttacked(b, (MoveFrom(m) + MoveTo(m)) \div 2, 1 - b.stm)
    /\ ~isAttacked(b, MoveTo(m), 1 - b.stm)

(* The squares between the king and the rook of its castle are empty *)
BetweenEmpty(b, m) ==
    \A s \in (IF MoveTo(m) > MoveFrom(m)
              THEN (MoveFrom(m) + 1)..(makeSquare(7, rankOf(MoveFrom(m))) - 1)
              ELSE (makeSquare(0, rankOf(MoveFrom(m))) + 1)..(MoveFrom(m) - 1)) :
       b.squares[s] = NO_PIECE

(* C15: no move of generateLegalMoves is a castle made in check, a castle  *)
(* whose king passes over an attacked square, or a castle whose king lands *)
(* on an attacked square.                                                  *)
C15_LegalCastleSafe ==
    \E legal \in {generateLegalMoves(board)} :
       \A m \in MoveSet(legal) : isCastle(m) => CastleSafe(board, m)

(* The legal filter has removed a castle onto an attacked square that the  *)
(* pseudo-legal generator offered, and has kept the castle to the other    *)
(* side.                                                                   *)
C15_Witness ==
    \E pseudo \in {generateMoves(board)}, legal \in {generateLegalMoves(board)} :
       /\ \E m \in MoveSet(pseudo) :
             /\ isCastle(m)
             /\ isAttacked(board, MoveTo(m), 1 - board.stm)
             /\ m \notin MoveSet(legal)
       /\ \E m \in MoveSet(legal) : isCastle(m) /\ CastleSafe(board, m)

(* C16: every castle of the pseudo-legal generator is made out of check,   *)
(* over and onto squares the opponent does not attack, with the squares    *)
(* between king and rook empty.                                            *)
C16_PseudoLegalCastleSafe ==
    \E pseudo \in {generateMoves(board)} :
       \A m \in MoveSet(pseudo) :
          isCastle(m) => CastleSafe(board, m) /\ BetweenEmpty(board, m)

----------------------------------------------------------------------------
(* Properties of generateCaptures under GenSpec *)

(* C17 as stated: generateCaptures emits every capture, every en passant   *)
(* capture and every promotion of the side to move, the promotions by a    *)
(* non-capturing push onto the last rank included.                         *)
C17_CapturesAndAllPromotions ==
    \E pseudo \in {generateMoves(board)}, captures \in {generateCaptures(board)} :
       \A m \in MoveSet(pseudo) :
          (isCapture(m) \/ isPromotion(m)) => m \in MoveSet(captures)

(* C17 as amended: generateCaptures emits every capture, every en passant  *)
(* capture and every promotion made by a capture, and no other move: the   *)
(* promotions by a non-capturing push are not emitted.                     *)
C17_CapturesOnly ==
    \E pseudo \in {generateMoves(board)}, captures \in {generateCaptures(board)} :
       MoveSet(captures) = {m \in MoveSet(pseudo) : isCapture(m)}

(* A pawn on the seventh rank can promote by capturing and by pushing: the *)
(* captures generator emits the first and not the second.                  *)
C17_Witness ==
    \E pseudo \in {generateMoves(board)}, captures \in {generateCaptures(board)} :
       /\ \E m \in MoveSet(captures) : isPromotion(m) /\ isCapture(m)
       /\ \E m \in MoveSet(pseudo) :
             isPromotion(m) /\ ~isCapture(m) /\ m \notin MoveSet(captures)

----------------------------------------------------------------------------
(* Properties of alphaBeta under NegamaxSpec: the search against the plain *)
(* algorithms on the same tree, which have no transposition table and no   *)
(* null windows.                                                           *)

(* The value of quiescence(alpha, beta) at a position *)
RECURSIVE QuiescenceValue(_, _, _, _)
RECURSIVE QuiescenceLoop(_, _, _, _, _, _)
QuiescenceValue(b, alpha, beta, garbage) ==
    Then(evaluate(b, garbage), LAMBDA standPat :
        IF standPat >= beta THEN beta
        ELSE QuiescenceLoop(b, generateCaptures(b), 1, Max(alpha, standPat),
                            beta, garbage))

QuiescenceLoop(b, moves, i, alpha, beta, garbage) ==
    IF i > Len(moves) THEN alpha
    ELSE Then(-QuiescenceValue(makeMove(b, moves[i]), -beta, -alpha, garbage),
              LAMBDA score :
                 IF score >= beta THEN beta
                 ELSE QuiescenceLoop(b, moves, i + 1, Max(alpha, score), beta,
                                     garbage))

(* The score of a draw, or of a position without legal moves: mated in    *)
(* ply plies from the root, or stalemate                                   *)
TerminalScore(b, legal, ply) ==
    IF isDrawByRepetition(b) = {"true"} \/ isDrawByFiftyMoves(b) THEN DRAW_SCORE
    ELSE IF isInCheck(b, b.stm) THEN -MATE_SCORE + ply
    ELSE DRAW_SCORE

(* Plain negamax to the given depth, ply plies below the root *)
RECURSIVE Negamax(_, _, _, _)
RECURSIVE NegamaxLoop(_, _, _, _, _, _, _)
Negamax(b, depth, ply, garbage) ==
    IF isDrawByRepetition(b) = {"true"} \/ isDrawByFiftyMoves(b) THEN DRAW_SCORE
    ELSE IF depth <= 0
    THEN QuiescenceValue(b, -MATE_SCORE, MATE_SCORE, garbage)
    ELSE Then(generateLegalMoves(b), LAMBDA legal :
            IF legal = <<>> THEN TerminalScore(b, legal, ply)
            ELSE NegamaxLoop(b, legal, 1, depth, ply, garbage, -MATE_SCORE))

NegamaxLoop(b, moves, i, depth, ply, garbage, best) ==
    IF i > Len(moves) THEN best
    ELSE NegamaxLoop(b, moves, i + 1, depth, ply, garbage,
                     Max(best, -Negamax(makeMove(b, moves[i]), depth - 1,
                                        ply + 1, garbage)))

(* C18, first part: when think returns, each completed iteration d, which  *)
(* called alphaBeta with the window (-MATE, +MATE), has recorded the score *)
(* of plain negamax to depth d from the root (in the searches to depth     *)
(* MaxDepth or less).                                                      *)
C18_FullWindowIsNegamax ==
    (search.pc = "done" /\ search.depth <= MaxDepth)
        => \A d \in 1..Len(trace.iterations) :
              trace.iterations[d].score = Negamax(board, d, 0, search.garbage)

(* Plain alpha-beta: alphaBeta without the table and with every move     *)
(* searched in the window (-beta, -alpha)                                  *)
RECURSIVE PlainAlphaBeta(_, _, _, _, _, _)
RECURSIVE PlainLoop(_, _, _, _, _, _, _, _, _)
PlainAlphaBeta(b, depth, alpha, beta, ply, garbage) ==
    IF isDrawByRepetition(b) = {"true"} \/ isDrawByFiftyMoves(b) THEN DRAW_SCORE
    ELSE IF depth <= 0 THEN QuiescenceValue(b, alpha, beta, garbage)
    ELSE Then(generateLegalMoves(b), LAMBDA legal :
            IF legal = <<>> THEN TerminalScore(b, legal, ply)
            ELSE \* the moves in the order of a node without a table move
                 Then(CHOOSE moves \in stdSort(legal, b, NoEntry, TRUE) : TRUE,
                      LAMBDA moves :
                         PlainLoop(b, moves, 1, depth, alpha, beta, ply,
                                   garbage, -MATE_SCORE)))

PlainLoop(b, moves, i, depth, alpha, beta, ply, garbage, best) ==
    IF i > Len(moves) THEN best
    ELSE Then(-PlainAlphaBeta(makeMove(b, moves[i]), depth - 1, -beta, -alpha,
                              ply + 1, garbage),
              LAMBDA score :
                 IF score >= beta /\ score > best /\ score > alpha THEN score
                 ELSE PlainLoop(b, moves, i + 1, depth, Max(alpha, score),
                                beta, ply, garbage, Max(best, score)))

(* C18, second part: a node that alphaBeta has searched to the end or to   *)
(* a cutoff returns the score of plain alpha-beta with the window the node *)
(* was entered with (in the searches to depth MaxDepth or less).           *)
C18_PVSIsPlainAlphaBeta ==
    (trace.store.made /\ search.depth <= MaxDepth)
        => trace.store.bestScore
              = PlainAlphaBeta(board, trace.store.depth, trace.store.alphaIn,
                               trace.store.beta,
                               search.info.depth - trace.store.depth,
                               search.garbage)

C19_NoLegalMoveIsBestmove0000 ==
    (search.pc = "printed" /\ generateLegalMoves(board) = <<>>)
        => /\ search.result = 0
           /\ search.printed = <<"b", "e", "s", "t", "m", "o", "v", "e", " ",
                                 "0", "0", "0", "0">>

(* A search to depth 2 of the checkmated root has printed its line *)
C19_Witness ==
    /\ search.pc = "printed"
    /\ generateLegalMoves(board) = <<>>
    /\ isInCheck(board, board.stm)
    /\ Len(trace.iterations) = 2
    /\ search.printed = <<"b", "e", "s", "t", "m", "o", "v", "e", " ",
                          "0", "0", "0", "0">>

(* C20: in a search with a time limit, timeUp is called at least once in  *)
(* every 2048 consecutively visited nodes, alphaBeta and quiescence nodes  *)
(* alike: fewer than 2048 nodes have been visited since the last call, so  *)
(* that a limit that has run out sets the stop flag within 2048 nodes.     *)
C20_ClockPolledEvery2048Nodes ==
    search.timeLimit # 0
        => trace.unchecked <= POLL_MASK

----------------------------------------------------------------------------
(* Properties of the transposition table under TTSpec *)

(* C21: probeTT(h) returns an entry if and only if the last store into the *)
(* slot of h since the last clearTT was made with hash h, the entry then   *)
(* holds the move, score, depth and bound of that store, and each slot     *)
(* stored into holds its last store.                                       *)
C21_ProbeReturnsLastStore ==
    /\ \A i \in TT_SLOTS :
          trace.stores[i].made => search.tt[i] = trace.stores[i].entry
    /\ trace.probe.made
          => \E last \in {trace.stores[index(trace.probe.hash)]} :
                /\ trace.probe.found
                      <=> (last.made /\ last.entry.hash = trace.probe.hash)
                /\ trace.probe.found => trace.probe.entry = last.entry

(* The same, for the hashes other than zero *)
C21_NonZeroHashes ==
    (trace.probe.made /\ trace.probe.hash # 0)
        => \E last \in {trace.stores[index(trace.probe.hash)]} :
              /\ trace.probe.found
                    <=> (last.made /\ last.entry.hash = trace.probe.hash)
              /\ trace.probe.found => trace.probe.entry = last.entry

----------------------------------------------------------------------------
(* Properties of the move strings under GenSpec *)

(* C22: for every legal move m of the position, parseMove(toString(m)) at  *)
(* the position is m (the legal moves are generated once and parsed        *)
(* among, as parseMove does for each string).                              *)
C22_ToStringParseMoveIsIdentity ==
    \E legal \in {generateLegalMoves(board)} :
       \A i \in 1..Len(legal) :
          parseMoveAmong(legal, toString(legal[i])) = legal[i]

(* A position with promotions of both encodings among its legal moves, or  *)
(* a castle, or an en-passant capture, each parsed back from its string    *)
C22_Witness ==
    \E legal \in {generateLegalMoves(board)} :
       /\ \/ \E i, j \in 1..Len(legal) :
                /\ isPromotion(legal[i]) /\ isPromotion(legal[j])
                /\ MoveFrom(legal[i]) = MoveFrom(legal[j])
                /\ MoveTo(legal[i]) = MoveTo(legal[j])
                /\ promotionType(legal[i]) # promotionType(legal[j])
                /\ Len(toString(legal[i])) = 5
          \/ \E i \in 1..Len(legal) : isCastle(legal[i])
          \/ \E i \in 1..Len(legal) : isEnPassant(legal[i])
       /\ \A i \in 1..Len(legal) :
             parseMoveAmong(legal, toString(legal[i])) = legal[i]

----------------------------------------------------------------------------
(* Properties of en passant under EpSpec *)

(* The last move on the undo stack moved a pawn two ranks *)
DoublePushed(b) ==
    /\ b.history # <<>>
    /\ \E m \in {b.history[Len(b.history)].move} :
          /\ typeOf(b.squares[MoveTo(m)]) = PAWN
          /\ colorOf(b.squares[MoveTo(m)]) = 1 - b.stm
          /\ fileOf(MoveFrom(m)) = fileOf(MoveTo(m))
          /\ Abs(rankOf(MoveTo(m)) - rankOf(MoveFrom(m))) = 2

(* The square between the two squares of the last move *)
SkippedSquare(b) ==
    makeSquare(fileOf(MoveFrom(b.history[Len(b.history)].move)),
               (rankOf(MoveFrom(b.history[Len(b.history)].move))
                + rankOf(MoveTo(b.history[Len(b.history)].move))) \div 2)

(* C23: the en-passant target after a move is the square a pawn's double   *)
(* push skipped, and no square after any other move; an en-passant capture *)
(* is generated (by generateMoves and by generateCaptures) only onto the   *)
(* target, only when the last move made was that double push (or the       *)
(* position was parsed with the target), and only for a pawn of the side   *)
(* to move on a file next to the target's, on its fifth rank.              *)
C23_EnPassantOnlyAfterDoublePush ==
    /\ board.history # <<>>
          => board.epSquare = IF DoublePushed(board) THEN SkippedSquare(board)
                              ELSE NO_SQUARE
    /\ \E pseudo \in {generateMoves(board)}, captures \in {generateCaptures(board)} :
          \A m \in MoveSet(pseudo) \cup MoveSet(captures) :
             isEnPassant(m)
                => /\ board.epSquare # NO_SQUARE
                   /\ MoveTo(m) = board.epSquare
                   /\ board.history # <<>> => DoublePushed(board)
                   /\ board.squares[MoveFrom(m)] = makePiece(board.stm, PAWN)
                   /\ Abs(fileOf(MoveFrom(m)) - fileOf(board.epSquare)) = 1
                   /\ rankOf(MoveFrom(m)) = IF board.stm = WHITE THEN 4 ELSE 3

(* An en-passant capture is generated right after a double push made on    *)
(* the board                                                               *)
C23_Witness ==
    /\ lastOp.op = "make"
    /\ DoublePushed(board)
    /\ \E m \in MoveSet(generateMoves(board)) : isEnPassant(m)

(* Two moves after a double push that could have been captured en passant, *)
(* no en-passant capture is generated                                      *)
C23_WitnessInBetween ==
    /\ Len(board.history) = 3
    /\ board.epSquare = NO_SQUARE
    /\ \E before \in {snapshots[2]} :
          /\ DoublePushed(before)
          /\ \E m \in MoveSet(generateMoves(before)) : isEnPassant(m)
    /\ \A m \in MoveSet(generateMoves(board)) : ~isEnPassant(m)

----------------------------------------------------------------------------
(* Properties of the worker hand-off under UCISpec *)

(* C24: at most one worker thread has been started and has not returned    *)
(* from its function, in every state.                                      *)
C24_AtMostOneWorker == uci.workers <= 1

(* A second go has been read while the search of the first is in flight:   *)
(* handleGo is in its join and no second worker has been started           *)
C24_Witness ==
    /\ uci.cmd = "go"
    /\ uci.gos = 2
    /\ InFlight
    /\ uci.workers = 1

----------------------------------------------------------------------------
(* Properties of perft under PerftSpec *)

(* C25: perft of a reference position to a depth returns the node count    *)
(* expected of the position at this depth.                                 *)
C25_PerftMatchesReference ==
    search.pc = "done" => search.result = search.expected

----------------------------------------------------------------------------
(* Properties of the FEN round trip under CanonSpec *)

(* C26: toFEN() after setFromFEN(f) of a canonical FEN f returns f. *)
C26_FENRoundTrip == trace.printed # <<>> => trace.printed = trace.fen

(* A FEN with part of the castling rights, black to move and counters of   *)
(* two and three digits has been parsed and printed; so has one with an    *)
(* en-passant target                                                       *)
C26_Witness ==
    /\ trace.printed # <<>>
    /\ \/ /\ board.castling = WHITE_KINGSIDE + BLACK_QUEENSIDE
          /\ board.stm = BLACK
          /\ board.halfmoves = 12
          /\ board.fullmoves = 105
       \/ board.epSquare # NO_SQUARE
    /\ trace.printed = trace.fen

(* C27: once the tables are initialised, getRookAttacks(sq, occ) and       *)
(* getBishopAttacks(sq, occ) return exactly the squares reached by walking *)
(* the piece's four rays from sq step by step, stopping at the edge of the *)
(* board and after the first occupied square, and getQueenAttacks returns  *)
(* the union of the two.                                                   *)
C27_SlidersAreRayWalks ==
    search.initialised =>
       /\ trace.asked.piece = "rook" =>
             trace.asked.attacks = Rays(trace.sq, ROOK_STEPS, trace.occupancy)
       /\ trace.asked.piece = "bishop" =>
             trace.asked.attacks = Rays(trace.sq, BISHOP_STEPS, trace.occupancy)
       /\ trace.asked.piece = "queen" =>
             trace.asked.attacks = Rays(trace.sq, ROOK_STEPS \cup BISHOP_STEPS, trace.occupancy)

(* What does hold: every table entry is the ray walk for the pattern of    *)
(* its own index, and an empty board is answered with the full rays.       *)
C27_TableEntriesAreRayWalks ==
    search.initialised =>
       \A sq \in ATTACK_SQUARES : \A i \in 0..(OCCUPANCY_INDEXES - 1) :
          /\ search.tables.rookAttacks[sq][i] = Rays(sq, ROOK_STEPS, PatternOf(sq, i))
          /\ search.tables.bishopAttacks[sq][i] = Rays(sq, BISHOP_STEPS, PatternOf(sq, i))

C27_EmptyBoard ==
    (search.initialised /\ trace.occupancy = {} /\ trace.asked.piece = "queen") =>
       trace.asked.attacks = Rays(trace.sq, ROOK_STEPS \cup BISHOP_STEPS, {})

(* C28: isDrawByRepetition reads the hash history only at indices between  *)
(* 0 and size - 1, whatever the length of the history (odd or even, ten or *)
(* more entries included) and whether or not a repetition is found.        *)
C28_ReadsWithinHistory ==
    rep.called => rep.reads \subseteq 0..(Len(board.hashHistory) - 1)

(* What does hold: a history of odd length is read within its bounds, and  *)
(* so is one in which the loop returns true before it reaches index 1.     *)
C28_OddLengthsReadWithin ==
    (rep.called /\ Len(board.hashHistory) % 2 = 1) =>
        rep.reads \subseteq 0..(Len(board.hashHistory) - 1)

(* C29: think returns the sentinel move 0 only if the root has no legal    *)
(* move or the search was stopped before depth 1 completed: with a legal   *)
(* move at the root and an iteration completed the move returned is not 0, *)
(* also at a root that is a fifty-move or repetition draw and with an      *)
(* entry for the root already in the transposition table.                  *)
C29_ThinkReturnsMove ==
    (/\ search.pc = "done"
     /\ trace.iterations # <<>>
     /\ generateLegalMoves(board) # <<>>)
        => search.result # 0

(* What does hold: the first search by a Search object of a root that is   *)
(* not a draw returns a move, unless the evaluation is MATE_SCORE or more. *)
C29_FirstSearchOfLiveRoot ==
    (/\ search.pc = "done"
     /\ lastOp.op = "fen"
     /\ Abs(search.garbage) < MATE_SCORE
     /\ ~isDrawByFiftyMoves(board)
     /\ trace.iterations # <<>>
     /\ generateLegalMoves(board) # <<>>)
        => search.result # 0

(* The part of C29 about a root that is a draw by the fifty-move rule,     *)
(* which is the part that fails whatever the evaluation.                   *)
C29_FiftyMoveRootReturnsMove ==
    (/\ search.pc = "done"
     /\ isDrawByFiftyMoves(board)
     /\ trace.iterations # <<>>
     /\ generateLegalMoves(board) # <<>>)
        => search.result # 0

(* Nor does the second search of such a root by the same Search object:    *)
(* the entry the first search left for the root is an upper bound above    *)
(* -MATE_SCORE, which ends no iteration.  With an evaluation of MATE_SCORE *)
(* or more the entry is a lower bound of MATE_SCORE and the second search  *)
(* returns 0.                                                              *)
C29_SecondSearchReturnsMove ==
    (/\ search.pc = "done"
     /\ lastOp.op = "go"
     /\ Abs(search.garbage) < MATE_SCORE
     /\ ~isDrawByFiftyMoves(board)
     /\ trace.iterations # <<>>
     /\ generateLegalMoves(board) # <<>>)
        => search.result # 0

(* C30: after setFromFEN and after any sequence of makeMove and unmakeMove *)
(* the hash history has exactly one entry more than the undo stack and its *)
(* last entry is the current hash; setFromFEN leaves the undo stack empty  *)
(* and the hash history with the starting hash alone, makeMove grows both  *)
(* by one entry and unmakeMove shrinks both by one.                        *)
C30_HashHistoryInLockStep ==
    [][/\ Len(board'.hashHistory) = Len(board'.history) + 1
       /\ Last(board'.hashHistory) = board'.hash
       /\ lastOp'.op = "fen" =>
             /\ board'.history = <<>>
             /\ board'.hashHistory = <<board'.hash>>
       /\ lastOp'.op = "make" =>
             /\ Len(board'.history) = Len(board.history) + 1
             /\ Len(board'.hashHistory) = Len(board.hashHistory) + 1
       /\ lastOp'.op = "unmake" =>
             /\ Len(board'.history) = Len(board.history) - 1
             /\ Len(board'.hashHistory) = Len(board.hashHistory) - 1]_vars

(* A move has been taken back with another one still on the undo stack *)
C30_Witness ==
    /\ lastOp.op = "unmake"
    /\ Len(board.history) = 1
    /\ Len(board.hashHistory) = 2
    /\ Last(board.hashHistory) = board.hash
    /\ board.hashHistory[1] # board.hash

(* C31: when think returns, after the last iteration, after the time has   *)
(* run out or after a stop seen at any node, the board is the board think  *)
(* was called with, hash, undo stack and hash history included: every      *)
(* makeMove of alphaBeta and quiescence is taken back on every return.     *)
C31_ThinkRestoresBoard ==
    search.pc \in {"done", "printed"} => board = snapshots[1]

(* think has returned after a stop that reached the search inside the tree *)
(* of the second iteration, below a move that quiescence had made          *)
C31_Witness ==
    /\ search.pc = "done"
    /\ search.info.stop
    /\ trace.stopIn = 2
    /\ search.info.nodes >= 4
    /\ board = snapshots[1]
    /\ board.history = <<>>

(* Between the returns the undo stack is as deep as the frames that wait   *)
(* for a child below a move they made.                                     *)
C31_MovesMadeAreFramesWaiting ==
    search.pc = "run" =>
        Len(board.history) =
            Cardinality({i \in 1..Len(search.stack) : search.stack[i].pc = "wait"})

(* The castling rights of a board, each with the home square of its king   *)
(* and the corner of its rook                                              *)
CASTLING_HOMES ==
    {[right |-> WHITE_KINGSIDE, king |-> WHITE_KING, home |-> E1,
      rook |-> WHITE_ROOK, corner |-> H1],
     [right |-> WHITE_QUEENSIDE, king |-> WHITE_KING, home |-> E1,
      rook |-> WHITE_ROOK, corner |-> A1],
     [right |-> BLACK_KINGSIDE, king |-> BLACK_KING, home |-> E8,
      rook |-> BLACK_ROOK, corner |-> H8],
     [right |-> BLACK_QUEENSIDE, king |-> BLACK_KING, home |-> E8,
      rook |-> BLACK_ROOK, corner |-> A8]}

RightsAgreeWithPieces(b) ==
    \A c \in CASTLING_HOMES :
        BitAnd(b.castling, c.right) # 0
            => b.squares[c.home] = c.king /\ b.squares[c.corner] = c.rook

(* The corner the rook of a castle move comes from *)
CastleCorner(to) ==
    IF to = G1 THEN H1 ELSE IF to = C1 THEN A1 ELSE IF to = G8 THEN H8 ELSE A8

(* C32: from a FEN whose castling rights agree with its pieces, after any  *)
(* sequence of legal moves a castling right that is set has its king on E1 *)
(* or E8 and its rook, of the same colour, on its corner; a castle move    *)
(* that is generated moves the king of the side to move from E1 or E8 and  *)
(* a rook of that side that stands on the corner.                          *)
C32_CastlingRightsHavePieces ==
    /\ RightsAgreeWithPieces(board)
    /\ \A k \in {kingSquare(board, board.stm)} :
          k # NO_SQUARE =>
             \A moves \in {generateKingMoves(board, k)} :
                \A i \in 1..Len(moves) :
                   isCastle(moves[i]) =>
                      /\ MoveFrom(moves[i]) = (IF board.stm = WHITE THEN E1 ELSE E8)
                      /\ MoveTo(moves[i]) \in {G1, C1, G8, C8}
                      /\ board.squares[MoveFrom(moves[i])] = makePiece(board.stm, KING)
                      /\ board.squares[CastleCorner(MoveTo(moves[i]))]
                            = makePiece(board.stm, ROOK)

(* A pawn has taken the rook on a8 and promoted; black has lost the right  *)
(* to castle on that side and kept the other one, white has kept both      *)
C32_Witness ==
    /\ lastOp.op = "make"
    /\ isPromotion(Last(board.history).move)
    /\ MoveTo(Last(board.history).move) = A8
    /\ Last(board.history).captured = BLACK_ROOK
    /\ Last(board.history).castling = 15
    /\ board.castling = WHITE_KINGSIDE + WHITE_QUEENSIDE + BLACK_KINGSIDE
    /\ board.squares[H8] = BLACK_ROOK

----------------------------------------------------------------------------
(* Properties of the command loop under UCISpec *)

(* The command thread is inside a handler, in a join on the worker, while  *)
(* the search of the worker is in flight, has no limit that ends it and    *)
(* has not been told to stop: UCI::loop reads no further line              *)
WaitsForSearchToEnd ==
    /\ uci.cmd \in {"go", "stop", "quit"}
    /\ uci.worker = "search"
    /\ ~uci.freed
    /\ ~uci.stop
    /\ ~EndsByItself(uci.args)

(* C33: while a search is in flight the command loop keeps reading         *)
(* commands: no command handler (in particular a second go received during *)
(* a go infinite search) waits for the running search to finish on its     *)
(* own, so a stop sent afterwards is always read and processed.            *)
C33_NoHandlerWaitsForSearch == ~WaitsForSearchToEnd

(* No go waits in the join of handleGo for a go infinite search to which   *)
(* no stop has been sent                                                   *)
C33_GoInfiniteThenGo ==
    ~(/\ WaitsForSearchToEnd
      /\ uci.cmd = "go"
      /\ uci.args.infinite
      /\ ~uci.stopped)

----------------------------------------------------------------------------
(* Properties of the probe of alphaBeta under RootSpec and SearchSpec *)

(* The entry of the last probe is deep enough for the call that probed *)
ProbeUsable ==
    /\ trace.probe.made
    /\ trace.probe.entry.valid
    /\ trace.probe.entry.depth >= trace.probe.depth

(* The call that probed has returned the score of the entry *)
ProbeReturnedScore ==
    /\ Len(search.stack) = trace.probe.frames - 1
    /\ search.ret = trace.probe.entry.score

(* The call that probed has gone on with the window alpha, beta: into      *)
(* quiescence at depth 0, into its first child otherwise, or it has found  *)
(* no legal move and returned the score of the mate or stalemate           *)
ProbeWentOnWith(alpha, beta) ==
    /\ Len(search.stack) >= trace.probe.frames - 1
    /\ Len(search.stack) <= trace.probe.frames + 1
    /\ Len(search.stack) = trace.probe.frames - 1
          => /\ trace.probe.depth > 0
             /\ search.ret \in {DRAW_SCORE,
                                -MATE_SCORE
                                    + (search.info.depth - trace.probe.depth)}
    /\ Len(search.stack) = trace.probe.frames
          => /\ trace.probe.depth <= 0
             /\ Last(search.stack) = NewFrame("quiescence", 0, alpha, beta)
    /\ Len(search.stack) = trace.probe.frames + 1
          => /\ trace.probe.depth > 0
             /\ search.stack[trace.probe.frames].pc = "wait"
             /\ search.stack[trace.probe.frames].alpha = alpha
             /\ search.stack[trace.probe.frames].beta = beta
             /\ Last(search.stack)
                   = NewFrame("alphaBeta", trace.probe.depth - 1, -beta, -alpha)

(* The alpha of the probing call raised to the score of a LOWER entry that *)
(* is deep enough, and its beta lowered to the score of an UPPER one       *)
RaisedAlpha ==
    IF ProbeUsable /\ trace.probe.entry.type = LOWER
          /\ trace.probe.entry.score > trace.probe.alpha
    THEN trace.probe.entry.score
    ELSE trace.probe.alpha

LoweredBeta ==
    IF ProbeUsable /\ trace.probe.entry.type = UPPER
          /\ trace.probe.entry.score < trace.probe.beta
    THEN trace.probe.entry.score
    ELSE trace.probe.beta

C34_WitnessUpper ==
    /\ ProbeUsable
    /\ trace.probe.entry.type = UPPER
    /\ trace.probe.entry.depth > trace.probe.depth
    /\ trace.probe.entry.score <= trace.probe.alpha
    /\ trace.probe.alpha > -MATE_SCORE
    /\ ProbeReturnedScore
    /\ trace.made = "none"

(* A LOWER entry that is deep enough has a score of beta or more *)
C34_WitnessLower ==
    /\ ProbeUsable
    /\ trace.probe.entry.type = LOWER
    /\ trace.probe.entry.score >= trace.probe.beta
    /\ ProbeReturnedScore

C34_WitnessShallow ==
    /\ trace.probe.made
    /\ trace.probe.entry.valid
    /\ trace.probe.entry.depth < trace.probe.depth
    /\ trace.probe.entry.type = UPPER
    /\ trace.probe.entry.score <= trace.probe.alpha
    /\ trace.made = "alphaBeta"

(* No EXACT entry is found: storeTT is called with UPPER or LOWER only *)
C34_NoExactEntry ==
    (trace.probe.made /\ trace.probe.entry.valid)
        => trace.probe.entry.type # EXACT

----------------------------------------------------------------------------
(* Properties of the mate scores under MateSpec *)

(* The call that probed has returned the score of the entry it found *)
ProbeCutOff ==
    /\ ProbeUsable
    /\ \/ trace.probe.entry.type = EXACT
       \/ /\ trace.probe.entry.type = LOWER
          /\ trace.probe.entry.score >= trace.probe.beta
       \/ /\ trace.probe.entry.type = UPPER
          /\ trace.probe.entry.score <= trace.probe.alpha
    /\ ProbeReturnedScore

(* A score of the form MATE - n or -MATE + n, n > 0 *)
IsMateScore(score) ==
    Abs(score) < MATE_SCORE /\ Abs(score) > MATE_SCORE - 100

(* The score is the score of a mate plies-from-root plies below the root   *)
(* seen from a node ply plies below the root: the mate is below the node,  *)
(* an odd number of plies below it when the side to move at the node mates *)
(* and an even number when it is mated                                     *)
MateScoreAtPly(score, ply) ==
    /\ MATE_SCORE - Abs(score) >= ply
    /\ (MATE_SCORE - Abs(score) - ply) % 2 = (IF score > 0 THEN 1 ELSE 0)

(* C35: every mate score alphaBeta returns at a node is distance-to-root   *)
(* adjusted: a side to move that is checkmated n plies below the root is   *)
(* scored -MATE + n and 0 when stalemated, for the scores computed at the  *)
(* node and for the scores taken from the transposition table at another   *)
(* ply.                                                                    *)
C35_MateScoresFromRoot ==
    /\ (trace.probe.made /\ ~ProbeCutOff
          /\ Len(search.stack) = trace.probe.frames - 1)
          => search.ret = IF isInCheck(board, board.stm)
                          THEN -MATE_SCORE + Len(board.history)
                          ELSE DRAW_SCORE
    /\ (ProbeCutOff /\ IsMateScore(search.ret))
          => MateScoreAtPly(search.ret, Len(board.history))

(* The scores computed at the node: no legal move and in check n plies     *)
(* below the root scores -MATE + n, no legal move and not in check 0       *)
C35_MatesAtNodeFromRoot ==
    (trace.probe.made /\ ~ProbeCutOff
       /\ Len(search.stack) = trace.probe.frames - 1)
       => search.ret = IF isInCheck(board, board.stm)
                       THEN -MATE_SCORE + Len(board.history)
                       ELSE DRAW_SCORE

(* A mate has been found at the node, three plies below the root *)
C35_MateFoundAtNode ==
    /\ trace.probe.made
    /\ ~ProbeCutOff
    /\ Len(search.stack) = trace.probe.frames - 1
    /\ Len(board.history) = 3
    /\ search.ret = -MATE_SCORE + 3

----------------------------------------------------------------------------
(* Properties of orderMoves under OrderSpec *)

(* The values of pawn, knight, bishop, rook, queen and king *)
PIECE_VALUE == <<100, 320, 330, 500, 900, 10000>>

(* victim_value x 10 - attacker_value of a capture of the position, the    *)
(* victim of an en-passant capture being a pawn                            *)
VictimAttackerKey(b, m) ==
    PIECE_VALUE[(IF isEnPassant(m) THEN PAWN
                 ELSE typeOf(b.squares[MoveTo(m)])) + 1] * 10
        - PIECE_VALUE[typeOf(b.squares[MoveFrom(m)]) + 1]

(* The best move of the entry of the hash, 0 without an entry *)
TableMove == probeTT(search.tt, board.hash).bestMove

C36_WitnessEnPassant ==
    /\ search.pc = "ordered"
    /\ search.tt = <<>>
    /\ board.squares[MoveTo(search.moves[1])] = BLACK_KNIGHT
    /\ isEnPassant(search.moves[2])
    /\ ~isCapture(search.moves[3])

(* orderMoves keeps the moves: each as often as it was generated *)
C36_SameMoves ==
    search.pc = "ordered" =>
       \E legal \in {generateLegalMoves(board)} :
          /\ Len(legal) = Len(search.moves)
          /\ \A m \in {legal[i] : i \in 1..Len(legal)} :
                Cardinality({i \in 1..Len(legal) : legal[i] = m})
                   = Cardinality({i \in 1..Len(legal) : search.moves[i] = m})

----------------------------------------------------------------------------
(* Properties of quiescence under QuiesceSpec *)

PieceCount(b) == Cardinality({sq \in 0..63 : b.squares[sq] # NO_PIECE})

(* The calls of quiescence on the stack, and those that have made a move   *)
(* and wait for the call below                                             *)
QuiescenceCalls ==
    {i \in 1..Len(search.stack) : search.stack[i].fn = "quiescence"}

QuiescenceWaiting ==
    {i \in QuiescenceCalls : search.stack[i].pc = "wait"}

(* The moves made since think was called that are tagged as captures *)
CapturesMade ==
    {i \in 1..Len(board.history) : isCapture(board.history[i].move)}

(* C37: every call of quiescence terminates without a depth limit and      *)
(* without the stop flag: each recursive call is made after a move that    *)
(* removes one piece from the board, so the depth of the recursion is      *)
(* bounded by the number of pieces.  Every move a call of quiescence has   *)
(* made is a capture, every capture made has taken one piece off the       *)
(* board, and there are no more calls of quiescence than the position      *)
(* think was called on has pieces.                                         *)
C37_QuiescenceRemovesPieces ==
    search.pc = "run" =>
       /\ \A i \in QuiescenceWaiting :
             /\ i <= Len(board.history)
             /\ isCapture(board.history[i].move)
       /\ PieceCount(board) + Cardinality(CapturesMade)
             = PieceCount(snapshots[1])
       /\ Cardinality(QuiescenceCalls) <= PieceCount(snapshots[1])

(* think has returned and the move is printed: no call is left *)
C37_ThinkReturned ==
    /\ search.pc = "printed"
    /\ search.stack = <<>>
    /\ search.info.nodes > MaxDepth

(* The bishop has taken on g7 in alphaBeta and the king has taken it back   *)
(* in quiescence, onto a square the pawn attacks: the call of quiescence   *)
(* that made the capture waits for the call it has made                    *)
C37_Witness ==
    /\ search.pc = "run"
    /\ ~search.info.stop
    /\ Cardinality(QuiescenceWaiting) = 1
    /\ Cardinality(QuiescenceCalls) = 2
    /\ Cardinality(CapturesMade) = 2
    /\ PieceCount(board) = PieceCount(snapshots[1]) - 2
    /\ board.squares[H8 - 9] = BLACK_KING

====
